---- MODULE Spec2Model ----
(***************************************************************************)
(* A model of the connectivity-resolution core and the address-pool        *)
(* allocator of infrabase (src/src/main.rs).                               *)
(*                                                                         *)
(* Several specifications share the variables of this module; each one     *)
(* drives one part of the program and leaves the other parts idle:         *)
(*   SpecIncrement  increment_ipv4_address / increment_ipv6_address        *)
(*   SpecAlloc      get_unused_wireguard_ipv{4,6}_address inside           *)
(*                  add_machine                                            *)
(*   SpecResolve    get_network_to_network                                 *)
(*   SpecPeers      get_wireguard_peers                                    *)
(*   SpecSort       sort_wireguard_peers                                   *)
(*   SpecRender     print_ssh_config, print_wg_quick,                      *)
(*                  write_wireguard_peers                                  *)
(***************************************************************************)
EXTENDS Integers, Sequences, FiniteSets, TLC

VARIABLES
    \* ---- increment_ipv{4,6}_address ----
    inc_pc,                 \* "idle" | "call" | "returned"
    inc_ip,                 \* the argument `ip`
    inc_result,             \* the Option returned
    \* ---- add_machine and the unused-address scan ----
    pc,                     \* position inside add_machine
    family,                 \* "v4" | "v6": the family add_machine has to allocate
    arg_ip,                 \* the wireguard_ipvN_address argument (Option)
    start_ip,               \* WIREGUARD_IPVn_START
    end_ip,                 \* WIREGUARD_IPVn_END
    wireguard_interfaces,   \* committed wireguard_ipvN_address column
    existing,               \* the HashSet read by the scan
    ip_iter,                \* iter::successors state: the Option yielded next
    unused,                 \* the Option returned by the scan
    chosen,                 \* the address add_machine inserts (Option)
    error,                  \* the failure add_machine ended with, or "none"
    \* ---- get_network_to_network ----
    resolve_pc,             \* "idle" | "call" | "returned" | "panicked"
    network_links_priority_map, \* (network, other_network) -> priority
    source_networks,        \* the argument source_networks (a Vec)
    addresses,              \* the argument addresses (a Vec of MachineAddress)
    network_to_network,     \* the Vec returned
    \* ---- get_wireguard_peers ----
    peers_pc,               \* "idle" | "call" | "loop" | "returned" | "failed"
    machines_map,           \* hostname -> Machine
    keepalives_map,         \* (source_machine, target_machine) -> interval
    for_machine,            \* the argument for_machine
    visited,                \* the hostnames machines_map.values() has yielded
    paths,                  \* hostname -> the network_to_network of its iteration
    peers,                  \* the Vec of WireguardPeer built so far
    peers_error,            \* the error returned, or "none"
    \* ---- sort_wireguard_peers ----
    sort_pc,                \* "idle" | "call" | "sorted" | "resorted" | "panicked"
    unsorted_peers,         \* the Vec as the caller passed it
    \* ---- print_ssh_config, print_wg_quick, write_wireguard_peers ----
    render_pc,              \* position inside the command
    command,                \* "ssh-config" | "wg-quick" | "write-wireguard-peers"
    machines,               \* the Vec returned by get_sorted_machines
    next_machine,           \* index of the machine the loop handles next
    stdout,                 \* the lines printed so far
    files,                  \* hostname -> the lines written to its peers file
    render_error,           \* the failure the command ended with, or "none"
    \* ---- two add_machine invocations on one database ----
    isolation,              \* the isolation level client.transaction() gets
    range_family,           \* "v4" | "v6": the family both invocations allocate
    range_start,            \* WIREGUARD_IPVn_START of both invocations
    range_end,              \* WIREGUARD_IPVn_END of both invocations
    stored,                 \* committed wireguard_interfaces: hostname -> address
    txn_pc,                 \* invocation -> its position inside add_machine
    txn_existing,           \* invocation -> the HashSet its scan read
    txn_chosen,             \* invocation -> the address it inserts (Option)
    txn_rows,               \* invocation -> its uncommitted wireguard_interfaces rows
    txn_error               \* invocation -> the failure it ended with, or "none"

incVars == <<inc_pc, inc_ip, inc_result>>
allocVars == <<pc, family, arg_ip, start_ip, end_ip, wireguard_interfaces,
               existing, ip_iter, unused, chosen, error>>
resolveVars == <<resolve_pc, network_links_priority_map, source_networks,
                 addresses, network_to_network>>
peersVars == <<peers_pc, machines_map, keepalives_map, for_machine, visited,
               paths, peers, peers_error>>
sortVars == <<sort_pc, unsorted_peers>>
renderVars == <<render_pc, command, machines, next_machine, stdout, files,
                render_error>>
txnVars == <<isolation, range_family, range_start, range_end, stored, txn_pc,
             txn_existing, txn_chosen, txn_rows, txn_error>>
vars == <<incVars, allocVars, resolveVars, peersVars, sortVars, renderVars,
          txnVars>>
\* what the actions of one part leave unchanged in the other parts
incOthers == <<allocVars, resolveVars, peersVars, sortVars, renderVars, txnVars>>
allocOthers == <<incVars, resolveVars, peersVars, sortVars, renderVars, txnVars>>
resolveOthers == <<incVars, allocVars, peersVars, sortVars, renderVars, txnVars>>
peersOthers == <<incVars, allocVars, resolveVars, sortVars, renderVars, txnVars>>
sortOthers == <<incVars, allocVars, resolveVars, renderVars, txnVars>>
renderOthers == <<incVars, allocVars, resolveVars, sortVars, txnVars>>
txnOthers == <<incVars, allocVars, resolveVars, peersVars, sortVars, renderVars>>

\* Option<T>: None is the empty sequence, Some(x) the one-element sequence.
None == <<>>
Some(x) == <<x>>
IsSome(o) == o # None
Unwrap(o) == o[1]

(***************************************************************************)
(* Bounds                                                                  *)
(***************************************************************************)
\* How far below the segment maximum the sampled segment values reach.
SegEdge == 1
\* Number of addresses in the low and in the top window of the address pool.
ScanWindow == 2

(***************************************************************************)
(* Addresses: a sequence of 4 octets (Ipv4Addr) or 8 segments (Ipv6Addr),  *)
(* most significant first.                                                 *)
(***************************************************************************)
Ipv4Len == 4
Ipv4SegMax == 255
Ipv6Len == 8
Ipv6SegMax == 65535

Ipv4AllOnes == [i \in 1..Ipv4Len |-> Ipv4SegMax]
Ipv6AllOnes == [i \in 1..Ipv6Len |-> Ipv6SegMax]

\* for i in (0..4).rev() { if octets[i] < 255 { octets[i] += 1; break; }
\*                         else { octets[i] = 0; } }
\* (i counts 4,3,2,1 here: TLA+ sequences start at 1)
\* a mutant of carry_octets: the carry is dropped instead of propagated
carry_octets_nocarry(octets, i) ==
    IF i = 0 THEN octets
    ELSE IF octets[i] < Ipv4SegMax THEN [octets EXCEPT ![i] = @ + 1]
    ELSE [octets EXCEPT ![i] = 0]

RECURSIVE carry_octets(_, _)
carry_octets(octets, i) ==
    IF i = 0 THEN octets
    ELSE IF octets[i] < Ipv4SegMax THEN [octets EXCEPT ![i] = @ + 1]
    ELSE carry_octets([octets EXCEPT ![i] = 0], i - 1)

increment_ipv4_address(ip) ==
    IF ip = Ipv4AllOnes THEN None
    ELSE Some(carry_octets(ip, Ipv4Len))

RECURSIVE carry_segments(_, _)
carry_segments(segments, i) ==
    IF i = 0 THEN segments
    ELSE IF segments[i] < Ipv6SegMax THEN [segments EXCEPT ![i] = @ + 1]
    ELSE carry_segments([segments EXCEPT ![i] = 0], i - 1)

increment_ipv6_address(ip) ==
    IF ip = Ipv6AllOnes THEN None
    ELSE Some(carry_segments(ip, Ipv6Len))

\* Numeric order of two addresses of one family: Ipv4Addr / Ipv6Addr compare
\* as their big-endian integers, which is the lexicographic order of segments.
RECURSIVE AddrLessFrom(_, _, _)
AddrLessFrom(a, b, i) ==
    IF i > Len(a) THEN FALSE
    ELSE IF a[i] # b[i] THEN a[i] < b[i]
    ELSE AddrLessFrom(a, b, i + 1)
AddrLess(a, b) == AddrLessFrom(a, b, 1)
AddrLE(a, b) == a = b \/ AddrLess(a, b)

\* value(b) - value(a) for the big-endian integers of a and b, by Horner's
\* rule on the segment differences, saturated to -2..2 (a difference of
\* magnitude 2 or more stays of magnitude 2 or more whatever follows, so the
\* saturation never changes whether the result is 1).
Clamp2(n) == IF n > 2 THEN 2 ELSE IF n < -2 THEN -2 ELSE n
RECURSIVE ValueDiffFrom(_, _, _, _, _)
ValueDiffFrom(a, b, base, i, acc) ==
    IF i > Len(a) THEN acc
    ELSE ValueDiffFrom(a, b, base, i + 1, Clamp2(acc * base + (b[i] - a[i])))
ValueDiff(a, b, base) == ValueDiffFrom(a, b, base, 1, 0)

(***************************************************************************)
(* SpecIncrement: the increment functions applied to sampled addresses.    *)
(***************************************************************************)
\* Segment values near both ends of the segment range.
SegSamples(max) == {0} \cup ((max - SegEdge)..max)
Ipv4Samples == [1..Ipv4Len -> SegSamples(Ipv4SegMax)]
Ipv6Samples == [1..Ipv6Len -> SegSamples(Ipv6SegMax)]

AllocIdle ==
    /\ pc = "idle" /\ family = "none" /\ arg_ip = None
    /\ start_ip = None /\ end_ip = None /\ wireguard_interfaces = {}
    /\ existing = {} /\ ip_iter = None /\ unused = None /\ chosen = None
    /\ error = "none"

IncIdle == inc_pc = "idle" /\ inc_ip = None /\ inc_result = None

ResolveIdle ==
    /\ resolve_pc = "idle" /\ network_links_priority_map = <<>>
    /\ source_networks = <<>> /\ addresses = <<>> /\ network_to_network = <<>>

PeersIdle ==
    /\ peers_pc = "idle" /\ machines_map = <<>> /\ keepalives_map = <<>>
    /\ for_machine = "" /\ visited = {} /\ paths = <<>> /\ peers = <<>>
    /\ peers_error = "none"

SortIdle == sort_pc = "idle" /\ unsorted_peers = <<>>

RenderIdle ==
    /\ render_pc = "idle" /\ command = "none" /\ machines = <<>>
    /\ next_machine = 0 /\ stdout = <<>> /\ files = <<>>
    /\ render_error = "none"

TxnIdle ==
    /\ isolation = "none" /\ range_family = "none" /\ range_start = None
    /\ range_end = None /\ stored = <<>> /\ txn_pc = <<>>
    /\ txn_existing = <<>> /\ txn_chosen = <<>> /\ txn_rows = <<>>
    /\ txn_error = <<>>

InitIncrement ==
    /\ inc_pc = "call"
    /\ inc_ip \in Ipv4Samples \cup Ipv6Samples
    /\ inc_result = None
    /\ AllocIdle
    /\ ResolveIdle
    /\ PeersIdle
    /\ SortIdle
    /\ RenderIdle
    /\ TxnIdle

CallIncrementIpv4 ==
    /\ inc_pc = "call"
    /\ Len(inc_ip) = Ipv4Len
    /\ inc_result' = increment_ipv4_address(inc_ip)
    /\ inc_pc' = "returned"
    /\ UNCHANGED <<inc_ip, incOthers>>

CallIncrementIpv6 ==
    /\ inc_pc = "call"
    /\ Len(inc_ip) = Ipv6Len
    /\ inc_result' = increment_ipv6_address(inc_ip)
    /\ inc_pc' = "returned"
    /\ UNCHANGED <<inc_ip, incOthers>>

NextIncrement == CallIncrementIpv4 \/ CallIncrementIpv6

SpecIncrement == InitIncrement /\ [][NextIncrement]_vars

SegMaxOf(ip) == IF Len(ip) = Ipv4Len THEN Ipv4SegMax ELSE Ipv6SegMax
AllOnesOf(ip) == [i \in 1..Len(ip) |-> SegMaxOf(ip)]

\* C4: for every address a other than all-ones, increment(a) is the address
\* whose big-endian integer value is value(a) + 1 (carry propagated from the
\* last segment toward the first); increment(all-ones) is None. IPv4 and
\* IPv6 alike.
C4_IncrementIsNumericSuccessor ==
    inc_pc = "returned" =>
        IF inc_ip = AllOnesOf(inc_ip)
        THEN inc_result = None
        ELSE /\ IsSome(inc_result)
             /\ Len(Unwrap(inc_result)) = Len(inc_ip)
             /\ \A i \in 1..Len(inc_ip) : Unwrap(inc_result)[i] \in 0..SegMaxOf(inc_ip)
             /\ ValueDiff(inc_ip, Unwrap(inc_result), SegMaxOf(inc_ip) + 1) = 1

\* a carry that crosses two octets has been computed
C4_Witness ==
    /\ inc_pc = "returned"
    /\ inc_ip = <<0, Ipv4SegMax - 1, Ipv4SegMax, Ipv4SegMax>>
    /\ inc_result = Some(<<0, Ipv4SegMax, 0, 0>>)


(***************************************************************************)
(* SpecAlloc: add_machine allocating the WireGuard address of one family   *)
(* with get_unused_wireguard_ipv4_address / ..._ipv6_address. The address  *)
(* of the other family is the one given on the command line, so only one   *)
(* scan runs.                                                              *)
(***************************************************************************)
\* The address pool: a low window (10.0.0.1 ..), two addresses either side
\* of an octet carry (10.0.0.255, 10.0.1.0) and a top window that ends at
\* the all-ones address; the same three windows under fd00:: for IPv6.
Ipv4Prefix == <<10, 0, 0, 0>>
Ipv6Prefix == <<64768, 0, 0, 0, 0, 0, 0, 0>>
PrefixOf(f) == IF f = "v4" THEN Ipv4Prefix ELSE Ipv6Prefix
LenOf(f) == IF f = "v4" THEN Ipv4Len ELSE Ipv6Len
MaxOf(f) == IF f = "v4" THEN Ipv4SegMax ELSE Ipv6SegMax
\* the address prefix:...:hi:lo
PrefixAddr(f, hi, lo) ==
    [PrefixOf(f) EXCEPT ![LenOf(f) - 1] = hi, ![LenOf(f)] = lo]
\* the address ffff:...:ffff:lo
TopAddr(f, lo) == [i \in 1..LenOf(f) |-> IF i = LenOf(f) THEN lo ELSE MaxOf(f)]

LowWindow(f) == {PrefixAddr(f, 0, k) : k \in 1..ScanWindow}
CarryWindow(f) == {PrefixAddr(f, 0, MaxOf(f)), PrefixAddr(f, 1, 0)}
TopWindow(f) == {TopAddr(f, MaxOf(f) - k) : k \in 0..(ScanWindow - 1)}
Pool(f) == LowWindow(f) \cup CarryWindow(f) \cup TopWindow(f)

Families == {"v4", "v6"}

InitAlloc ==
    /\ IncIdle
    /\ ResolveIdle
    /\ PeersIdle
    /\ SortIdle
    /\ RenderIdle
    /\ TxnIdle
    /\ pc = "begin"
    /\ family \in Families
    /\ start_ip \in Pool(family)
    /\ end_ip \in Pool(family)
    /\ wireguard_interfaces \in SUBSET Pool(family)
    /\ \/ arg_ip = None
       \/ /\ arg_ip \in {Some(a) : a \in LowWindow(family)}
          /\ start_ip = PrefixAddr(family, 0, 1)
          /\ end_ip = PrefixAddr(family, 0, ScanWindow)
    /\ existing = {}
    /\ ip_iter = None
    /\ unused = None
    /\ chosen = None
    /\ error = "none"

\* a mutant of successor: the all-ones address is followed by the zero
\* address
successor_wrapping(f, ip) ==
    IF \A i \in DOMAIN ip : ip[i] = MaxOf(f)
    THEN Some([i \in DOMAIN ip |-> 0])
    ELSE IF f = "v4" THEN increment_ipv4_address(ip) ELSE increment_ipv6_address(ip)

\* increment_ipv4_address or increment_ipv6_address, as the scan of the
\* family calls it through iter::successors
successor(f, ip) ==
    IF f = "v4" THEN increment_ipv4_address(ip) ELSE increment_ipv6_address(ip)

\* add_machine: Some(ip) => ip, no scan
AddMachineGivenAddress ==
    /\ pc = "begin"
    /\ IsSome(arg_ip)
    /\ chosen' = arg_ip
    /\ pc' = "keypair"
    /\ UNCHANGED <<family, arg_ip, start_ip, end_ip, wireguard_interfaces,
                   existing, ip_iter, unused, error, allocOthers>>

\* a mutant of FirstProposed: the scan starts one past start_ip
FirstProposed_skips_start(f, start) == successor(f, start)

\* iter::successors(Some(start_ip), increment): the first item is start_ip
FirstProposed(f, start) == Some(start)

\* the scan reads the existing addresses and builds the iterator
ScanReadExisting ==
    /\ pc = "begin"
    /\ arg_ip = None
    /\ existing' = wireguard_interfaces
    /\ ip_iter' = FirstProposed(family, start_ip)
    /\ pc' = "scan"
    /\ UNCHANGED <<family, arg_ip, start_ip, end_ip, wireguard_interfaces,
                   unused, chosen, error, allocOthers>>

\* if !existing.contains(&proposed_ip) { return Ok(Some(proposed_ip)); }
ScanReturnUnused ==
    /\ pc = "scan"
    /\ IsSome(ip_iter)
    /\ Unwrap(ip_iter) \notin existing
    /\ unused' = ip_iter
    /\ pc' = "scanned"
    /\ UNCHANGED <<family, arg_ip, start_ip, end_ip, wireguard_interfaces,
                   existing, ip_iter, chosen, error, allocOthers>>

\* if proposed_ip == end_ip { break; }  ...  Ok(None)
ScanBreakAtEnd ==
    /\ pc = "scan"
    /\ IsSome(ip_iter)
    /\ Unwrap(ip_iter) \in existing
    /\ Unwrap(ip_iter) = end_ip
    /\ unused' = None
    /\ pc' = "scanned"
    /\ UNCHANGED <<family, arg_ip, start_ip, end_ip, wireguard_interfaces,
                   existing, ip_iter, chosen, error, allocOthers>>

\* the loop takes the next item of the iterator
ScanAdvance ==
    /\ pc = "scan"
    /\ IsSome(ip_iter)
    /\ Unwrap(ip_iter) \in existing
    /\ Unwrap(ip_iter) # end_ip
    /\ ip_iter' = successor(family, Unwrap(ip_iter))
    /\ UNCHANGED <<pc, family, arg_ip, start_ip, end_ip, wireguard_interfaces,
                   existing, unused, chosen, error, allocOthers>>

\* the iterator is exhausted (the all-ones address had no successor): Ok(None)
ScanIteratorEnds ==
    /\ pc = "scan"
    /\ ip_iter = None
    /\ unused' = None
    /\ pc' = "scanned"
    /\ UNCHANGED <<family, arg_ip, start_ip, end_ip, wireguard_interfaces,
                   existing, ip_iter, chosen, error, allocOthers>>

\* .context("Could not find an unused WireGuard IPvN address ...")?
\* the transaction is dropped without commit
AddMachineNoAddress ==
    /\ pc = "scanned"
    /\ unused = None
    /\ error' = "NoAddressAvailable"
    /\ pc' = "failed"
    /\ UNCHANGED <<family, arg_ip, start_ip, end_ip, wireguard_interfaces,
                   existing, ip_iter, unused, chosen, allocOthers>>

AddMachineAddressFound ==
    /\ pc = "scanned"
    /\ IsSome(unused)
    /\ chosen' = unused
    /\ pc' = "keypair"
    /\ UNCHANGED <<family, arg_ip, start_ip, end_ip, wireguard_interfaces,
                   existing, ip_iter, unused, error, allocOthers>>

\* wireguard::generate_keypair()? fails: the transaction is dropped
GenerateKeypairFails ==
    /\ pc = "keypair"
    /\ error' = "KeypairFailed"
    /\ pc' = "failed"
    /\ UNCHANGED <<family, arg_ip, start_ip, end_ip, wireguard_interfaces,
                   existing, ip_iter, unused, chosen, allocOthers>>

\* the three INSERTs and transaction.commit()
AddMachineInsertCommit ==
    /\ pc = "keypair"
    /\ wireguard_interfaces' = wireguard_interfaces \cup {Unwrap(chosen)}
    /\ pc' = "committed"
    /\ UNCHANGED <<family, arg_ip, start_ip, end_ip, existing, ip_iter,
                   unused, chosen, error, allocOthers>>

NextAlloc ==
    \/ AddMachineGivenAddress
    \/ ScanReadExisting
    \/ ScanReturnUnused
    \/ ScanBreakAtEnd
    \/ ScanAdvance
    \/ ScanIteratorEnds
    \/ AddMachineNoAddress
    \/ AddMachineAddressFound
    \/ GenerateKeypairFails
    \/ AddMachineInsertCommit

SpecAlloc == InitAlloc /\ [][NextAlloc]_vars

\* add_machine is a sequential program: whenever it has a next step, it
\* takes it
SpecAllocFair == InitAlloc /\ [][NextAlloc]_vars /\ WF_vars(NextAlloc)

\* The addresses the formulas below quantify over: the pool and the addresses
\* around each window. A scan cannot pass a free address and every address
\* outside the pool is free, so all addresses between start_ip and a result
\* lie in one window and are in this set; a range [start_ip, end_ip] that
\* spans two windows contains a free address of this set.
NearSegs(f) == (0..(ScanWindow + 1)) \cup ((MaxOf(f) - ScanWindow)..MaxOf(f))
Universe(f) ==
    {PrefixAddr(f, hi, lo) : hi \in 0..1, lo \in NearSegs(f)}
        \cup {TopAddr(f, lo) : lo \in NearSegs(f)}
InRange(a) == AddrLE(start_ip, a) /\ AddrLE(a, end_ip)
ScanReturned == pc = "scanned"

\* C1: for every start, end and existing set (start <= end is not assumed),
\* an address returned by the unused-address scan lies in [start, end].
C1_ResultInRange ==
    (ScanReturned /\ IsSome(unused)) => InRange(Unwrap(unused))

\* the same statement for ordered bounds, which the scan does satisfy
ResultInRangeWhenOrdered ==
    (ScanReturned /\ IsSome(unused) /\ AddrLE(start_ip, end_ip))
        => InRange(Unwrap(unused))

\* C2: an address r returned by the scan is not in the existing set and every
\* address a with start <= a < r is: r is the lowest free address from start.
C2_ResultIsFirstFree ==
    (ScanReturned /\ IsSome(unused)) =>
        /\ Unwrap(unused) \notin existing
        /\ AddrLE(start_ip, Unwrap(unused))
        /\ \A a \in Universe(family) :
               (AddrLE(start_ip, a) /\ AddrLess(a, Unwrap(unused))) => a \in existing

\* the scan skipped two used addresses across the octet carry and returned
\* the third
C2_Witness ==
    /\ ScanReturned
    /\ family = "v4"
    /\ start_ip = <<10, 0, 0, 255>>
    /\ existing \cap CarryWindow("v4") = CarryWindow("v4")
    /\ unused = Some(<<10, 0, 1, 1>>)

\* C3: if every address of [start, end] is in the existing set the scan
\* reports None, which add_machine turns into the NoAddressAvailable failure
\* without inserting anything; if some address of [start, end] is free the
\* scan does not report None.
C3_ExhaustedIffNoneFree ==
    /\ ScanReturned =>
           ((\A a \in Universe(family) : InRange(a) => a \in existing)
                <=> unused = None)
    /\ (pc = "failed" /\ arg_ip = None /\ unused = None) =>
           /\ error = "NoAddressAvailable"
           /\ wireguard_interfaces = existing
    /\ (pc \in {"keypair", "committed"} /\ arg_ip = None) => IsSome(unused)

\* the same statement for ordered bounds, which the code does satisfy
ExhaustedIffNoneFreeWhenOrdered ==
    AddrLE(start_ip, end_ip) => C3_ExhaustedIffNoneFree

\* the two scans of the specification's scenario, as reached states
ScanExampleFree ==
    /\ ScanReturned
    /\ start_ip = <<10, 0, 0, 1>> /\ end_ip = <<10, 0, 0, 2>>
    /\ existing = {<<10, 0, 0, 1>>}
    /\ unused = Some(<<10, 0, 0, 2>>)
ScanExampleExhausted ==
    /\ pc = "failed"
    /\ start_ip = <<10, 0, 0, 1>> /\ end_ip = <<10, 0, 0, 2>>
    /\ existing = {<<10, 0, 0, 1>>, <<10, 0, 0, 2>>}
    /\ unused = None
    /\ error = "NoAddressAvailable"
    /\ wireguard_interfaces = existing

\* what add_machine does with the scan's None, whatever the bounds
NoneMeansNoAddressAvailable ==
    /\ (pc = "failed" /\ arg_ip = None /\ unused = None) =>
           /\ error = "NoAddressAvailable"
           /\ wireguard_interfaces = existing
    /\ (pc \in {"keypair", "committed"} /\ arg_ip = None) => IsSome(unused)

(***************************************************************************)
(* SpecResolve: get_network_to_network on bounded inputs.                  *)
(***************************************************************************)
\* Largest link priority drawn.
MaxPriority == 2
\* Longest source_networks list drawn.
MaxSourceNetworks == 2
\* Most addresses a machine has.
MaxAddresses == 2

Networks == {"public", "vpn"}
Priorities == 1..MaxPriority

\* every sequence over S of length at most n
BoundedSeq(S, n) == UNION {[1..k -> S] : k \in 0..n}

\* NetworkLinksPriorityMap: a HashMap, here a function whose domain is the
\* set of keys present
LinkMaps == UNION {[K -> Priorities] : K \in SUBSET (Networks \X Networks)}

\* a MachineAddress
MachineAddress(network, address, ssh_port, wireguard_port) ==
    [network |-> network, address |-> address,
     ssh_port |-> ssh_port, wireguard_port |-> wireguard_port]

\* the address lists drawn here: one address per listed network, the k-th
\* address being k, no ports
AddressesOn(nets) ==
    [k \in 1..Len(nets) |-> MachineAddress(nets[k], k, None, None)]

InitResolve ==
    /\ IncIdle
    /\ AllocIdle
    /\ PeersIdle
    /\ SortIdle
    /\ RenderIdle
    /\ TxnIdle
    /\ resolve_pc = "call"
    /\ network_links_priority_map \in LinkMaps
    /\ source_networks \in BoundedSeq(Networks, MaxSourceNetworks)
    /\ addresses \in {AddressesOn(nets) : nets \in BoundedSeq(Networks, MaxAddresses)}
    /\ network_to_network = <<>>

\* addresses.iter().map(|a| a.network.clone()).collect::<Vec<_>>()
DestNetworks(addrs) == [k \in 1..Len(addrs) |-> addrs[k].network]

\* a mutant of Product: the pair is built destination first
Product_swapped(src, dst) ==
    [k \in 1..(Len(src) * Len(dst)) |->
        <<dst[((k - 1) % Len(dst)) + 1], src[((k - 1) \div Len(dst)) + 1]>>]

\* iproduct!(source_networks, dest_networks): every (s, d), the source
\* network in the outer loop and the destination network in the inner loop
Product(src, dst) ==
    [k \in 1..(Len(src) * Len(dst)) |->
        <<src[((k - 1) \div Len(dst)) + 1], dst[((k - 1) % Len(dst)) + 1]>>]

\* a mutant of Admissible: no filter, every pair is kept
Admissible_always(map, p) == TRUE

\* .filter(|(s, d)| network_links_priority_map.contains_key(&(s, d)))
Admissible(map, p) == p \in DOMAIN map

Filtered(map, src, addrs) ==
    SelectSeq(Product(src, DestNetworks(addrs)), LAMBDA p : Admissible(map, p))

\* The orders a sort by key may leave a sequence in: the sequences that have
\* the elements of seq (counted with multiplicity) in ascending order of key.
\* Built front to back: the next element is any remaining one of least key.
Count(seq, x) == Cardinality({i \in DOMAIN seq : seq[i] = x})
Range(seq) == {seq[i] : i \in DOMAIN seq}
Least(S, key) == {x \in S : \A y \in S : key[x] <= key[y]}
Greatest(S, key) == {x \in S : \A y \in S : key[x] >= key[y]}

RECURSIVE DescendingOrders(_, _, _)
DescendingOrders(counts, n, key) ==
    IF n = 0 THEN {<<>>}
    ELSE UNION {
        {<<x>> \o rest :
            rest \in DescendingOrders([counts EXCEPT ![x] = @ - 1], n - 1, key)}
            : x \in Greatest({y \in DOMAIN counts : counts[y] > 0}, key)}

\* a mutant of UnstableSortByKey: the order is descending
UnstableSortByKey_descending(seq, key) ==
    DescendingOrders([x \in Range(seq) |-> Count(seq, x)], Len(seq), key)

RECURSIVE AscendingOrders(_, _, _)
AscendingOrders(counts, n, key) ==
    IF n = 0 THEN {<<>>}
    ELSE UNION {
        {<<x>> \o rest :
            rest \in AscendingOrders([counts EXCEPT ![x] = @ - 1], n - 1, key)}
            : x \in Least({y \in DOMAIN counts : counts[y] > 0}, key)}

\* sort_unstable_by_key: the result is ordered by key; "this sort is
\* unstable (i.e., may reorder equal elements)", so every ascending order of
\* the elements is a possible result
UnstableSortByKey(seq, key) ==
    AscendingOrders([x \in Range(seq) |-> Count(seq, x)], Len(seq), key)

\* The whole of get_network_to_network. The sort key is
\* network_links_priority_map.get(&(s, d)).unwrap(), which panics on a pair
\* that is not a key of the map.
GetNetworkToNetwork ==
    /\ resolve_pc = "call"
    /\ LET pairs == Filtered(network_links_priority_map, source_networks, addresses)
       IN  IF \E i \in DOMAIN pairs : pairs[i] \notin DOMAIN network_links_priority_map
           THEN /\ resolve_pc' = "panicked"
                /\ UNCHANGED network_to_network
           ELSE /\ resolve_pc' = "returned"
                /\ network_to_network' \in
                       UnstableSortByKey(pairs, network_links_priority_map)
    /\ UNCHANGED <<network_links_priority_map, source_networks, addresses,
                   resolveOthers>>

NextResolve == GetNetworkToNetwork

SpecResolve == InitResolve /\ [][NextResolve]_vars

Returned == resolve_pc = "returned"
Priority(p) == network_links_priority_map[p]
SourceSet == Range(source_networks)
DestSet == Range(DestNetworks(addresses))
AdmissiblePairs ==
    {p \in SourceSet \X DestSet : p \in DOMAIN network_links_priority_map}

\* C5: every pair (s, d) returned has s among the source networks, d among
\* the networks of the destination addresses and the key (s, d) itself in the
\* link-priority map; a pair listed only in reverse, or not listed, is not
\* returned.
C5_PairsAreListedLinks ==
    Returned =>
        \A i \in DOMAIN network_to_network :
            /\ network_to_network[i][1] \in SourceSet
            /\ network_to_network[i][2] \in DestSet
            /\ network_to_network[i] \in DOMAIN network_links_priority_map

\* (public, vpn) is listed only in reverse and was dropped, (public, public)
\* was kept
C5_Witness ==
    /\ Returned
    /\ <<"vpn", "public">> \in DOMAIN network_links_priority_map
    /\ <<"public", "vpn">> \notin DOMAIN network_links_priority_map
    /\ source_networks = <<"public">>
    /\ DestNetworks(addresses) = <<"vpn", "public">>
    /\ network_to_network = << <<"public", "public">> >>

\* C6: the list returned is sorted ascending by link priority, so its first
\* element has the least priority of all admissible pairs.
C6_SortedAscending ==
    Returned =>
        /\ \A i, j \in DOMAIN network_to_network :
               i < j => Priority(network_to_network[i]) <= Priority(network_to_network[j])
        /\ \A p \in AdmissiblePairs :
               /\ network_to_network # <<>>
               /\ Priority(network_to_network[1]) <= Priority(p)

\* the pair enumerated second has the better priority and was moved to the
\* front
C6_Witness ==
    /\ Returned
    /\ source_networks = <<"public">>
    /\ DestNetworks(addresses) = <<"public", "vpn">>
    /\ network_to_network = << <<"public", "vpn">>, <<"public", "public">> >>
    /\ Priority(<<"public", "vpn">>) < Priority(<<"public", "public">>)

\* the stable sort of seq by key: for each priority in ascending order, the
\* elements of that priority in the order they have in seq
RECURSIVE StableFrom(_, _, _)
StableFrom(seq, key, pr) ==
    IF pr > MaxPriority THEN <<>>
    ELSE SelectSeq(seq, LAMBDA x : key[x] = pr) \o StableFrom(seq, key, pr + 1)
StableSortByKey(seq, key) == StableFrom(seq, key, 1)

C8_EmptyWhenNothingAdmissible ==
    (resolve_pc \in {"returned", "panicked"}
        /\ (source_networks = <<>> \/ addresses = <<>> \/ AdmissiblePairs = {}))
    => (Returned /\ network_to_network = <<>>)

\* both lists and the map are non-empty, but no pair is a key of the map
C8_Witness ==
    /\ Returned
    /\ source_networks = <<"public">>
    /\ DestNetworks(addresses) = <<"vpn", "vpn">>
    /\ DOMAIN network_links_priority_map = {<<"vpn", "public">>, <<"vpn", "vpn">>}
    /\ network_to_network = <<>>

(***************************************************************************)
(* SpecPeers: get_wireguard_peers for one requester over a small catalog.  *)
(***************************************************************************)
\* Most addresses the varied candidate machine has.
MaxPeerAddresses == 2

U16Max == 65535
WireguardPort == 51820

\* a Machine (the fields the core reads)
Machine(hostname, wg4, wg6, wg_port, privkey, pubkey, ssh_port, networks, addrs) ==
    [hostname |-> hostname,
     wireguard_ipv4_address |-> wg4,
     wireguard_ipv6_address |-> wg6,
     wireguard_port |-> wg_port,
     wireguard_privkey |-> privkey,
     wireguard_pubkey |-> pubkey,
     ssh_port |-> ssh_port,
     networks |-> networks,
     addresses |-> addrs]

\* The WireGuard columns drawn for a candidate: a full interface, none, an
\* interface without public key, an interface without IPv6 address.
WireguardProfiles == {"full", "none", "nopubkey", "noipv6"}
MachineWith(h, profile, networks, addrs) ==
    Machine(h,
        IF profile = "none" THEN None ELSE Some(<<"wg4", h>>),
        IF profile \in {"none", "noipv6"} THEN None ELSE Some(<<"wg6", h>>),
        IF profile \in {"none", "noport"} THEN None ELSE Some(WireguardPort),
        IF profile = "none" THEN None ELSE Some(<<"privkey", h>>),
        IF profile \in {"none", "nopubkey"} THEN None ELSE Some(<<"pubkey", h>>),
        Some(22), networks, addrs)

\* the wireguard_port column of an address (an i32): NULL, a port, a value
\* above the u16 range, a negative value
StoredPorts == {None, Some(WireguardPort), Some(U16Max + 1), Some(-1)}

\* the address lists drawn for machine h: the k-th address is <<h, k>>
AddressLists(h, n) ==
    {[k \in 1..Len(nets) |-> MachineAddress(nets[k], <<h, k>>, Some(22), ports[k])] :
        <<nets, ports>> \in UNION {[1..m -> Networks] \X [1..m -> StoredPorts] : m \in 0..n}}

\* the networks column of machines_view: the networks of the addresses
NetworksOf(addrs) == DestNetworks(addrs)

\* the link maps drawn: the two links out of "public" with any priorities,
\* and optionally the link from "vpn" into "public"
PeerLinkMaps ==
    UNION {[K -> 1..2] : K \in SUBSET {<<"public", "public">>, <<"public", "vpn">>}}
    \cup {m @@ (<<"vpn", "public">> :> 1) :
            m \in UNION {[K -> 1..2] :
                      K \in SUBSET {<<"public", "public">>, <<"public", "vpn">>}}}

\* the keepalive maps drawn: none; a -> b with c -> a; b -> a
KeepaliveMaps ==
    {<<>>,
     (<<"a", "b">> :> 25) @@ (<<"c", "a">> :> 15),
     (<<"b", "a">> :> 25)}

\* Catalogs: requester "a" with no, one or two networks; candidate "b"
\* varied in full; candidate "c" a WireGuard machine with one address on
\* "vpn".
RequesterNetworks == {<<>>, <<"public">>, <<"public", "vpn">>}
Catalogs ==
    {("a" :> MachineWith("a", "full", nets, AddressesOn(nets))
      @@ "b" :> MachineWith("b", prof, NetworksOf(addrs), addrs)
      @@ "c" :> MachineWith("c", "full", <<"vpn">>,
                    <<MachineAddress("vpn", <<"c", 1>>, Some(22), Some(WireguardPort))>>)) :
        nets \in RequesterNetworks,
        prof \in WireguardProfiles,
        addrs \in AddressLists("b", MaxPeerAddresses)}
\* a catalog that lacks the requester
CatalogWithoutRequester ==
    ("b" :> MachineWith("b", "full", <<>>, <<>>))

InitPeers ==
    /\ IncIdle
    /\ AllocIdle
    /\ SortIdle
    /\ RenderIdle
    /\ TxnIdle
    /\ resolve_pc = "idle"
    /\ source_networks = <<>> /\ addresses = <<>> /\ network_to_network = <<>>
    /\ peers_pc = "call"
    /\ for_machine = "a"
    /\ \/ /\ machines_map \in Catalogs
          /\ network_links_priority_map \in PeerLinkMaps
          /\ keepalives_map \in KeepaliveMaps
       \/ /\ machines_map = CatalogWithoutRequester
          /\ network_links_priority_map = <<>>
          /\ keepalives_map = <<>>
    /\ visited = {}
    /\ paths = <<>>
    /\ peers = <<>>
    /\ peers_error = "none"

\* a mutant of FindOnNetwork: the last address on the network, not the first
FindOnNetwork_last(addrs, net) ==
    LET on == SelectSeq(addrs, LAMBDA a : a.network = net)
    IN  IF on = <<>> THEN None ELSE Some(on[Len(on)])

\* machine.addresses.iter().find(|a| a.network == *dest_network)
FindOnNetwork(addrs, net) ==
    LET on == SelectSeq(addrs, LAMBDA a : a.network = net)
    IN  IF on = <<>> THEN None ELSE Some(on[1])

\* a mutant of FitsU16: the port is taken without the range check
FitsU16_unchecked(port) == TRUE

\* u16::try_from(*port): Ok for 0..=65535
FitsU16(port) == port >= 0 /\ port <= U16Max

\* The match on network_to_network.get(0): the endpoint Option, or the
\* PortOutOfRange error raised by `?`.
EndpointFor(machine, n2n) ==
    IF n2n = <<>> THEN [err |-> FALSE, endpoint |-> None]
    ELSE LET desired_address == FindOnNetwork(machine.addresses, n2n[1][2])
         IN  IF IsSome(desired_address) /\ IsSome(Unwrap(desired_address).wireguard_port)
             THEN LET port == Unwrap(Unwrap(desired_address).wireguard_port)
                  IN  IF FitsU16(port)
                      THEN [err |-> FALSE,
                            endpoint |-> Some(<<Unwrap(desired_address).address, port>>)]
                      ELSE [err |-> TRUE, endpoint |-> None]
             ELSE [err |-> FALSE, endpoint |-> None]

\* a mutant of KeepaliveFor: the key is looked up in the reverse direction
KeepaliveFor_reversed(map, source, target) ==
    IF <<target, source>> \in DOMAIN map THEN Some(map[<<target, source>>]) ELSE None

\* keepalives_map.get(&(for_machine, machine.hostname)).copied()
KeepaliveFor(map, source, target) ==
    IF <<source, target>> \in DOMAIN map THEN Some(map[<<source, target>>]) ELSE None

\* a WireguardPeer
WireguardPeer(hostname, pubkey, ipv4, ipv6, endpoint, keepalive) ==
    [hostname |-> hostname,
     wireguard_pubkey |-> pubkey,
     wireguard_ipv4_address |-> ipv4,
     wireguard_ipv6_address |-> ipv6,
     endpoint |-> endpoint,
     keepalive |-> keepalive]

\* a mutant of PeerFor: the public key is not required (a missing key is
\* rendered as the empty string)
PeerFor_nokey(machine, endpoint, keepalive) ==
    IF /\ IsSome(machine.wireguard_ipv4_address)
       /\ IsSome(machine.wireguard_ipv6_address)
    THEN Some(WireguardPeer(machine.hostname,
                  IF IsSome(machine.wireguard_pubkey)
                  THEN Unwrap(machine.wireguard_pubkey) ELSE "",
                  Unwrap(machine.wireguard_ipv4_address),
                  Unwrap(machine.wireguard_ipv6_address),
                  endpoint, keepalive))
    ELSE None

\* if let (Some(ipv4), Some(ipv6), Some(pubkey)) = (...) { WireguardPeer {..} }:
\* the peer pushed for the machine, if any
PeerFor(machine, endpoint, keepalive) ==
    IF /\ IsSome(machine.wireguard_ipv4_address)
       /\ IsSome(machine.wireguard_ipv6_address)
       /\ IsSome(machine.wireguard_pubkey)
    THEN Some(WireguardPeer(machine.hostname,
                  Unwrap(machine.wireguard_pubkey),
                  Unwrap(machine.wireguard_ipv4_address),
                  Unwrap(machine.wireguard_ipv6_address),
                  endpoint, keepalive))
    ELSE None

\* a mutant of LookupMachine: a missing machine is replaced by an empty one
\* of that name
LookupMachine_or_default(map, hostname) ==
    IF hostname \in DOMAIN map THEN Some(map[hostname])
    ELSE Some(MachineWith(hostname, "full", <<>>, <<>>))

\* machines_map.get(for_machine)
LookupMachine(map, hostname) ==
    IF hostname \in DOMAIN map THEN Some(map[hostname]) ELSE None

\* a mutant of IsForMachine: the requester itself is not skipped
IsForMachine_never(machine, hostname) == FALSE

\* if machine.hostname == for_machine { continue; }
IsForMachine(machine, hostname) == machine.hostname = hostname

\* machines_map.get(for_machine).ok_or_else(...)? fails
PeersNoSuchMachine ==
    /\ peers_pc = "call"
    /\ LookupMachine(machines_map, for_machine) = None
    /\ peers_error' = "NoSuchMachine"
    /\ peers_pc' = "failed"
    /\ UNCHANGED <<machines_map, keepalives_map, for_machine, visited, paths,
                   peers, peersOthers>>

PeersBegin ==
    /\ peers_pc = "call"
    /\ IsSome(LookupMachine(machines_map, for_machine))
    /\ peers_pc' = "loop"
    /\ UNCHANGED <<machines_map, keepalives_map, for_machine, visited, paths,
                   peers, peers_error, peersOthers>>

\* One iteration of `for machine in machines_map.values()`: a HashMap yields
\* its values in an arbitrary order, each once.
PeersVisit(h) ==
    /\ peers_pc = "loop"
    /\ h \in DOMAIN machines_map
    /\ h \notin visited
    /\ visited' = visited \cup {h}
    /\ LET machine == machines_map[h]
           source_machine == Unwrap(LookupMachine(machines_map, for_machine))
       IN  IF IsForMachine(machine, for_machine)
           THEN UNCHANGED <<paths, peers, peers_pc, peers_error>>
           ELSE \E n2n \in UnstableSortByKey(
                               Filtered(network_links_priority_map,
                                        source_machine.networks, machine.addresses),
                               network_links_priority_map) :
                    LET e == EndpointFor(machine, n2n)
                    IN  /\ paths' = (h :> n2n) @@ paths
                        /\ IF e.err
                           THEN /\ peers_error' = "PortOutOfRange"
                                /\ peers_pc' = "failed"
                                /\ UNCHANGED peers
                           ELSE /\ UNCHANGED <<peers_pc, peers_error>>
                                /\ peers' =
                                     peers \o PeerFor(machine, e.endpoint,
                                                  KeepaliveFor(keepalives_map,
                                                      for_machine, machine.hostname))
    /\ UNCHANGED <<machines_map, keepalives_map, for_machine, peersOthers>>

\* Ok(peers)
PeersReturn ==
    /\ peers_pc = "loop"
    /\ visited = DOMAIN machines_map
    /\ peers_pc' = "returned"
    /\ UNCHANGED <<machines_map, keepalives_map, for_machine, visited, paths,
                   peers, peers_error, peersOthers>>

NextPeers ==
    \/ PeersNoSuchMachine
    \/ PeersBegin
    \/ \E h \in DOMAIN machines_map : PeersVisit(h)
    \/ PeersReturn

SpecPeers == InitPeers /\ [][NextPeers]_vars

\* the index of the first address of addrs on network net (0 if none)
FirstIndexOn(addrs, net) ==
    IF \E k \in DOMAIN addrs : addrs[k].network = net
    THEN CHOOSE k \in DOMAIN addrs :
             /\ addrs[k].network = net
             /\ \A j \in 1..(k - 1) : addrs[j].network # net
    ELSE 0
PeerHostnames == {peers[i].hostname : i \in DOMAIN peers}

\* C9: for each peer built, if path resolution yielded at least one pair the
\* endpoint is (address, WireGuard port) of the candidate's (first) address
\* on the top pair's destination network, and is unset if that address has
\* no WireGuard port; if resolution yielded no pair the endpoint is unset.
\* Either way a candidate with a WireGuard interface is still listed.
C9_EndpointFromTopPair ==
    /\ \A i \in DOMAIN peers :
           LET candidate == machines_map[peers[i].hostname]
               n2n == paths[peers[i].hostname]
           IN  IF n2n = <<>>
               THEN peers[i].endpoint = None
               ELSE LET k == FirstIndexOn(candidate.addresses, n2n[1][2])
                    IN  /\ k # 0
                        /\ IF candidate.addresses[k].wireguard_port = None
                           THEN peers[i].endpoint = None
                           ELSE peers[i].endpoint =
                                    Some(<<candidate.addresses[k].address,
                                           Unwrap(candidate.addresses[k].wireguard_port)>>)
    /\ peers_pc = "returned" =>
           \A h \in DOMAIN machines_map \ {for_machine} :
               (/\ IsSome(machines_map[h].wireguard_ipv4_address)
                /\ IsSome(machines_map[h].wireguard_ipv6_address)
                /\ IsSome(machines_map[h].wireguard_pubkey)) => h \in PeerHostnames

\* link (public, vpn) = 1, "a" on public, "b" on vpn with port 51820: the
\* peer of "b" has b's vpn address and port 51820 as endpoint
C9_Witness ==
    /\ peers_pc = "returned"
    /\ network_links_priority_map = (<<"public", "vpn">> :> 1)
    /\ machines_map["a"].networks = <<"public">>
    /\ machines_map["b"].addresses =
           <<MachineAddress("vpn", <<"b", 1>>, Some(22), Some(WireguardPort))>>
    /\ \E i \in DOMAIN peers :
           /\ peers[i].hostname = "b"
           /\ peers[i].endpoint = Some(<<<<"b", 1>>, WireguardPort>>)

\* C10: a machine is in the peer list only if it has a WireGuard address
\* (both families) and a WireGuard public key, so a machine without public
\* key is never listed even when it has a WireGuard address; and no machine
\* is listed twice.
C10_PeersHaveAddressAndKey ==
    /\ \A i \in DOMAIN peers :
           /\ peers[i].hostname \in DOMAIN machines_map
           /\ IsSome(machines_map[peers[i].hostname].wireguard_ipv4_address)
           /\ IsSome(machines_map[peers[i].hostname].wireguard_ipv6_address)
           /\ IsSome(machines_map[peers[i].hostname].wireguard_pubkey)
    /\ \A i, j \in DOMAIN peers : peers[i].hostname = peers[j].hostname => i = j

\* "b" has WireGuard addresses but no public key: the list returned holds
\* "c" alone
C10_Witness ==
    /\ peers_pc = "returned"
    /\ IsSome(machines_map["b"].wireguard_ipv4_address)
    /\ machines_map["b"].wireguard_pubkey = None
    /\ PeerHostnames = {"c"}

\* C11: the peer list built for for_machine never holds a peer whose
\* hostname is for_machine, although the requester is itself a machine of
\* the catalog with WireGuard addresses and a public key.
C11_RequesterNotAPeer ==
    \A i \in DOMAIN peers : peers[i].hostname # for_machine

\* the requester "a" has been visited, it has a full WireGuard interface,
\* and the list returned holds the other two machines
C11_Witness ==
    /\ peers_pc = "returned"
    /\ for_machine \in visited
    /\ IsSome(machines_map[for_machine].wireguard_ipv4_address)
    /\ IsSome(machines_map[for_machine].wireguard_ipv6_address)
    /\ IsSome(machines_map[for_machine].wireguard_pubkey)
    /\ PeerHostnames = {"b", "c"}

\* C13: the keepalive of the peer built for candidate c is the value stored
\* under the key (for_machine, c) when the map has that key and is absent
\* otherwise; the key is directional, so a value stored under (c,
\* for_machine) or under any other pair never sets it.
C13_KeepaliveIsDirectional ==
    \A i \in DOMAIN peers :
        LET key == <<for_machine, peers[i].hostname>>
        IN  IF key \in DOMAIN keepalives_map
            THEN peers[i].keepalive = Some(keepalives_map[key])
            ELSE peers[i].keepalive = None

\* the map holds a -> b = 25 and c -> a = 15: the peer of "b" has keepalive
\* 25 and the peer of "c" has none
C13_Witness ==
    /\ peers_pc = "returned"
    /\ <<"a", "b">> \in DOMAIN keepalives_map
    /\ <<"c", "a">> \in DOMAIN keepalives_map
    /\ \E i, j \in DOMAIN peers :
           /\ peers[i].hostname = "b" /\ peers[i].keepalive = Some(25)
           /\ peers[j].hostname = "c" /\ peers[j].keepalive = None

\* the port stored on the address of candidate h selected as endpoint by
\* the pair list n2n (None if no address is selected or it has no port)
SelectedPort(h, n2n) ==
    IF n2n = <<>> THEN None
    ELSE LET k == FirstIndexOn(machines_map[h].addresses, n2n[1][2])
         IN  IF k = 0 THEN None ELSE machines_map[h].addresses[k].wireguard_port

\* C19: when the WireGuard port stored on the address selected as endpoint
\* is outside 0..65535 (negative or above), get_wireguard_peers ends with
\* PortOutOfRange and returns no peer list; every endpoint of a list that is
\* returned has its port within 0..65535.
C19_PortOutOfRangeIsFatal ==
    /\ \A h \in DOMAIN paths :
           LET port == SelectedPort(h, paths[h])
           IN  (IsSome(port) /\ Unwrap(port) \notin 0..U16Max)
                   => (peers_pc = "failed" /\ peers_error = "PortOutOfRange")
    /\ peers_error = "PortOutOfRange" => peers_pc = "failed"
    /\ peers_pc = "returned" =>
           \A i \in DOMAIN peers :
               IsSome(peers[i].endpoint) => Unwrap(peers[i].endpoint)[2] \in 0..U16Max

\* the address of "b" selected as endpoint stores the port -1, "c" was
\* visited before "b" and its peer built: the call ends with PortOutOfRange
C19_Witness ==
    /\ peers_pc = "failed"
    /\ peers_error = "PortOutOfRange"
    /\ "b" \in DOMAIN paths
    /\ SelectedPort("b", paths["b"]) = Some(-1)
    /\ PeerHostnames = {"c"}

\* the same with a port above the range: the selected address of "b" stores
\* 65536
PortAboveRangeExample ==
    /\ peers_pc = "failed"
    /\ peers_error = "PortOutOfRange"
    /\ "b" \in DOMAIN paths
    /\ SelectedPort("b", paths["b"]) = Some(U16Max + 1)

(***************************************************************************)
(* Hostname ordering.  A hostname is a string; Chars gives its characters, *)
(* CharCode their byte values, so that the comparisons are computed on the *)
(* characters as the code computes them.                                   *)
(***************************************************************************)
\* the longest peer list sorted
MaxSortLen == 3

HostnameChars ==
    "a" :> <<"a">> @@ "b" :> <<"b">> @@ "c" :> <<"c">>
    @@ "host2" :> <<"h", "o", "s", "t", "2">>
    @@ "host02" :> <<"h", "o", "s", "t", "0", "2">>
    @@ "host10" :> <<"h", "o", "s", "t", "1", "0">>
    @@ "host010" :> <<"h", "o", "s", "t", "0", "1", "0">>
    @@ "web1" :> <<"w", "e", "b", "1">>
    @@ "2host" :> <<"2", "h", "o", "s", "t">>
Chars(hostname) == HostnameChars[hostname]

CharCode ==
    "0" :> 48 @@ "1" :> 49 @@ "2" :> 50 @@ "a" :> 97 @@ "b" :> 98 @@ "c" :> 99
    @@ "e" :> 101 @@ "h" :> 104 @@ "o" :> 111 @@ "s" :> 115 @@ "t" :> 116
    @@ "w" :> 119
Digits ==
    "0" :> 0 @@ "1" :> 1 @@ "2" :> 2 @@ "3" :> 3 @@ "4" :> 4 @@ "5" :> 5
    @@ "6" :> 6 @@ "7" :> 7 @@ "8" :> 8 @@ "9" :> 9
IsDigit(ch) == ch \in DOMAIN Digits

\* Ord::cmp on integers
IntCmp(x, y) == IF x < y THEN "Less" ELSE IF x > y THEN "Greater" ELSE "Equal"

\* String::cmp: byte-wise lexicographic, a proper prefix is Less
RECURSIVE StringCmp(_, _)
StringCmp(x, y) ==
    IF x = <<>> THEN (IF y = <<>> THEN "Equal" ELSE "Less")
    ELSE IF y = <<>> THEN "Greater"
    ELSE IF CharCode[Head(x)] # CharCode[Head(y)]
         THEN IntCmp(CharCode[Head(x)], CharCode[Head(y)])
         ELSE StringCmp(Tail(x), Tail(y))

\* the value of a run of digits
RECURSIVE NumberValue(_)
NumberValue(run) ==
    IF run = <<>> THEN 0
    ELSE NumberValue(SubSeq(run, 1, Len(run) - 1)) * 10 + Digits[run[Len(run)]]

\* the length of the maximal run of digits (or of non-digits) chars starts with
LeadingRun(chars) ==
    CHOOSE n \in 1..Len(chars) :
        /\ \A k \in 1..n : IsDigit(chars[k]) = IsDigit(chars[1])
        /\ n = Len(chars) \/ IsDigit(chars[n + 1]) # IsDigit(chars[1])

\* HumanStr::new: the string cut into maximal runs, a run of digits being a
\* number and any other run a string segment
RECURSIVE HumanStr(_)
HumanStr(chars) ==
    IF chars = <<>> THEN <<>>
    ELSE LET n == LeadingRun(chars)
             run == SubSeq(chars, 1, n)
         IN  <<IF IsDigit(chars[1])
               THEN [kind |-> "Number", number |-> NumberValue(run), letters |-> <<>>]
               ELSE [kind |-> "Letters", number |-> 0, letters |-> run]>>
             \o HumanStr(SubSeq(chars, n + 1, Len(chars)))

\* partial_cmp of two segments: numbers by value, string segments as
\* strings, and no order (None) between a number and a string segment
ElemPartialCmp(e1, e2) ==
    IF e1.kind = "Number" /\ e2.kind = "Number" THEN Some(IntCmp(e1.number, e2.number))
    ELSE IF e1.kind = "Letters" /\ e2.kind = "Letters"
         THEN Some(StringCmp(e1.letters, e2.letters))
         ELSE None

\* HumanStr::partial_cmp: the first pair of segments that is not Equal
\* decides; when one list of segments is a prefix of the other the shorter
\* one is Less
RECURSIVE HumanStrPartialCmp(_, _)
HumanStrPartialCmp(x, y) ==
    IF x = <<>> \/ y = <<>> THEN Some(IntCmp(Len(x), Len(y)))
    ELSE LET c == ElemPartialCmp(Head(x), Head(y))
         IN  IF c = Some("Equal") THEN HumanStrPartialCmp(Tail(x), Tail(y)) ELSE c

\* Option<Ordering>::unwrap_or_else(|| h1.cmp(h2))
UnwrapOrElseStringCmp(c, h1, h2) ==
    IF IsSome(c) THEN c ELSE Some(StringCmp(Chars(h1), Chars(h2)))

\* a mutant of PeersCompare: the hostnames are compared as plain strings
PeersCompare_lexicographic(h1, h2) == Some(StringCmp(Chars(h1), Chars(h2)))

\* the closure of sort_wireguard_peers on two hostnames, before its unwrap()
PeersCompare(h1, h2) ==
    HumanStrPartialCmp(HumanStr(Chars(h1)), HumanStr(Chars(h2)))

\* the closure of get_sorted_machines and of list_addresses on two hostnames
MachinesCompare(h1, h2) ==
    UnwrapOrElseStringCmp(HumanStrPartialCmp(HumanStr(Chars(h1)), HumanStr(Chars(h2))),
                          h1, h2)

\* a mutant of IsLess: Equal counts as less
IsLess_or_equal(ordering) == ordering # "Greater"

\* is_less of sort_unstable_by: compare(a, b) == Less
IsLess(ordering) == ordering = "Less"

\* sort_unstable_by on a slice of up to 20 elements is an insertion sort:
\* the element p is moved left past every element it is less than.  compare
\* maps a pair of hostnames to the Option the closure computes; a None makes
\* the closure's unwrap() panic.
RECURSIVE InsertTail(_, _, _)
InsertTail(sorted, p, compare) ==
    IF sorted = <<>> THEN [panicked |-> FALSE, v |-> <<p>>]
    ELSE LET last == sorted[Len(sorted)]
             c == compare[<<p.hostname, last.hostname>>]
         IN  IF c = None THEN [panicked |-> TRUE, v |-> sorted \o <<p>>]
             ELSE IF IsLess(Unwrap(c))
                  THEN LET r == InsertTail(SubSeq(sorted, 1, Len(sorted) - 1), p, compare)
                       IN  [panicked |-> r.panicked, v |-> r.v \o <<last>>]
                  ELSE [panicked |-> FALSE, v |-> sorted \o <<p>>]

RECURSIVE InsertionSort(_, _, _)
InsertionSort(sorted, rest, compare) ==
    IF rest = <<>> THEN [panicked |-> FALSE, v |-> sorted]
    ELSE LET r == InsertTail(sorted, Head(rest), compare)
         IN  IF r.panicked THEN r ELSE InsertionSort(r.v, Tail(rest), compare)

HostnamesOf(v) == {v[i].hostname : i \in DOMAIN v}

\* peers.sort_unstable_by(|p1, p2| HumanStr::new(&p1.hostname)
\*     .partial_cmp(&HumanStr::new(&p2.hostname)).unwrap())
sort_wireguard_peers(v) ==
    InsertionSort(<<>>, v,
        [hh \in HostnamesOf(v) \X HostnamesOf(v) |-> PeersCompare(hh[1], hh[2])])

\* machines.sort_unstable_by(... .unwrap_or_else(|| m1.hostname.cmp(&m2.hostname)))
get_sorted_machines(v) ==
    InsertionSort(<<>>, v,
        [hh \in HostnamesOf(v) \X HostnamesOf(v) |-> MachinesCompare(hh[1], hh[2])]).v

(***************************************************************************)
(* SpecSort: sort_wireguard_peers applied, twice in a row, to peer lists   *)
(* of distinct hostnames.                                                  *)
(***************************************************************************)
SortHostnames == {"host2", "host10", "host02", "web1", "2host"}

\* the peer of a machine named h
SamplePeer(h) ==
    WireguardPeer(h, <<"pubkey", h>>, <<"wg4", h>>, <<"wg6", h>>, None, None)

\* the peer lists drawn: get_wireguard_peers lists a hostname at most once
PeerLists ==
    {[k \in 1..Len(hs) |-> SamplePeer(hs[k])] :
        hs \in {q \in UNION {[1..n -> SortHostnames] : n \in 0..MaxSortLen} :
                   \A i, j \in DOMAIN q : q[i] = q[j] => i = j}}

InitSort ==
    /\ IncIdle
    /\ AllocIdle
    /\ ResolveIdle
    /\ RenderIdle
    /\ TxnIdle
    /\ peers_pc = "idle" /\ machines_map = <<>> /\ keepalives_map = <<>>
    /\ for_machine = "" /\ visited = {} /\ paths = <<>>
    /\ peers_error = "none"
    /\ peers \in PeerLists
    /\ unsorted_peers = peers
    /\ sort_pc = "call"

\* sort_wireguard_peers(&mut peers)
SortWireguardPeers ==
    /\ sort_pc = "call"
    /\ LET r == sort_wireguard_peers(peers)
       IN  IF r.panicked
           THEN sort_pc' = "panicked" /\ UNCHANGED peers
           ELSE sort_pc' = "sorted" /\ peers' = r.v
    /\ UNCHANGED <<unsorted_peers, peers_pc, machines_map, keepalives_map,
                   for_machine, visited, paths, peers_error, sortOthers>>

\* sort_wireguard_peers(&mut peers) on the list already sorted
SortWireguardPeersAgain ==
    /\ sort_pc = "sorted"
    /\ LET r == sort_wireguard_peers(peers)
       IN  IF r.panicked
           THEN sort_pc' = "panicked" /\ UNCHANGED peers
           ELSE sort_pc' = "resorted" /\ peers' = r.v
    /\ UNCHANGED <<unsorted_peers, peers_pc, machines_map, keepalives_map,
                   for_machine, visited, paths, peers_error, sortOthers>>

NextSort ==
    \/ SortWireguardPeers
    \/ SortWireguardPeersAgain

SpecSort == InitSort /\ [][NextSort]_vars

\* the hostnames of a list, in order
HostnameSeq(v) == [i \in DOMAIN v |-> v[i].hostname]

\* C14: when sort_wireguard_peers returns, the list is a permutation of the
\* list passed in and is ordered by hostname in natural order: for adjacent
\* peers p, q the hostname of p is not naturally greater than that of q,
\* digit runs comparing by value, so host2 stands before host10.
C14_SortedNaturally ==
    sort_pc \in {"sorted", "resorted"} =>
        /\ Len(peers) = Len(unsorted_peers)
        /\ \A i \in DOMAIN unsorted_peers : \E j \in DOMAIN peers : peers[j] = unsorted_peers[i]
        /\ \A i \in 1..(Len(peers) - 1) :
               HumanStrPartialCmp(HumanStr(Chars(peers[i].hostname)),
                                  HumanStr(Chars(peers[i + 1].hostname)))
                   \in {Some("Less"), Some("Equal")}
        /\ \A i, j \in DOMAIN peers :
               (peers[i].hostname = "host2" /\ peers[j].hostname = "host10") => i < j

\* [web1, host10, host2] is returned as [host2, host10, web1]
C14_Witness ==
    /\ sort_pc = "sorted"
    /\ HostnameSeq(unsorted_peers) = <<"web1", "host10", "host2">>
    /\ HostnameSeq(peers) = <<"host2", "host10", "web1">>

\* C15: sorting never aborts: when the natural comparator cannot order two
\* hostnames (a digit segment against a non-digit segment at the same
\* position) the peer-list sort falls back to the plain string order of the
\* two hostnames, as the machine and address list sorts do.
C15_PeerSortNeverAborts ==
    /\ sort_pc # "panicked"
    /\ sort_pc \in {"sorted", "resorted"} =>
           \A i \in 1..(Len(peers) - 1) :
               Unwrap(MachinesCompare(peers[i].hostname, peers[i + 1].hostname))
                   \in {"Less", "Equal"}

\* the closure with the fallback orders every pair of hostnames drawn, the
\* pairs the natural comparator leaves unordered included
FallbackOrdersEveryPair ==
    \A h1, h2 \in DOMAIN HostnameChars :
        /\ IsSome(MachinesCompare(h1, h2))
        /\ PeersCompare(h1, h2) = None =>
               MachinesCompare(h1, h2) = Some(StringCmp(Chars(h1), Chars(h2)))

\* a list holding "2host" and "host2", which the natural comparator cannot
\* order, makes the sort panic
PeerSortPanicsExample ==
    /\ sort_pc = "panicked"
    /\ HostnameSeq(unsorted_peers) = <<"host2", "2host">>

\* C16: sort_wireguard_peers is idempotent: applied to a list it has already
\* sorted it returns, and leaves the list as it is.
C16_SortIdempotent ==
    [][sort_pc = "sorted" => (sort_pc' = "resorted" /\ peers' = peers)]_vars

\* [host10, host02, host2], which holds two hostnames equal in natural
\* order, was sorted to [host02, host2, host10] and sorted again
C16_Witness ==
    /\ sort_pc = "resorted"
    /\ HostnameSeq(unsorted_peers) = <<"host10", "host02", "host2">>
    /\ HostnameSeq(peers) = <<"host02", "host2", "host10">>

(***************************************************************************)
(* SpecRender: the commands that render configuration: print_ssh_config,   *)
(* print_wg_quick and write_wireguard_peers, and get_wireguard_peers       *)
(* called on its own.  stdout and files hold what has been emitted.        *)
(***************************************************************************)
\* the longest address list of the candidate whose addresses are varied
MaxRenderAddresses == 1

Commands == {"ssh-config", "wg-quick", "write-wireguard-peers", "get_wireguard_peers"}

\* the WireGuard columns of the requester: all set, none set, the port
\* missing, the IPv6 address missing
RenderProfiles == {"full", "none", "noport", "noipv6"}

RenderLinkMaps ==
    {<<>>,
     (<<"public", "public">> :> 1),
     (<<"public", "vpn">> :> 1),
     (<<"public", "public">> :> 1) @@ (<<"public", "vpn">> :> 2),
     (<<"public", "public">> :> 2) @@ (<<"public", "vpn">> :> 1),
     (<<"public", "public">> :> 1) @@ (<<"public", "vpn">> :> 1)}

RenderKeepaliveMaps == {<<>>, (<<"host2", "host10">> :> 25)}

\* the ssh_port column of an address: NULL or a port that differs from the
\* machine-level SSH port 22
AddressSshPorts == {None, Some(2222)}

\* the address lists drawn for machine h: the k-th address is <<h, k>>
RenderAddressLists(h, n) ==
    {[k \in 1..Len(nets) |-> MachineAddress(nets[k], <<h, k>>, ssh[k], ports[k])] :
        <<nets, ssh, ports>> \in
            UNION {[1..m -> Networks] \X [1..m -> AddressSshPorts] \X [1..m -> StoredPorts] :
                      m \in 0..n}}

\* Catalogs: "host2" on "public" with its WireGuard columns varied, "host10"
\* with its addresses varied, "web1" with or without WireGuard interface and
\* with two addresses on "vpn".
RenderCatalogs ==
    {("host2" :> MachineWith("host2", prof, <<"public">>,
                     <<MachineAddress("public", <<"host2", 1>>, Some(22), None)>>)
      @@ "host10" :> MachineWith("host10", "full", NetworksOf(addrs), addrs)
      @@ "web1" :> MachineWith("web1", other, <<"vpn">>,
                     <<MachineAddress("vpn", <<"web1", 1>>, Some(2201),
                                      Some(WireguardPort)),
                       MachineAddress("vpn", <<"web1", 2>>, Some(2202),
                                      Some(WireguardPort))>>)) :
        prof \in RenderProfiles,
        other \in {"full", "none"},
        addrs \in RenderAddressLists("host10", MaxRenderAddresses)}

\* a catalog with two hostnames that are equal in natural order, "host10"
\* and "host010", both WireGuard machines
CatalogWithEqualHostnames ==
    "host2" :> MachineWith("host2", "full", <<"public">>,
                   <<MachineAddress("public", <<"host2", 1>>, Some(22), None)>>)
    @@ "host10" :> MachineWith("host10", "full", <<"public">>,
                   <<MachineAddress("public", <<"host10", 1>>, Some(22),
                                    Some(WireguardPort))>>)
    @@ "host010" :> MachineWith("host010", "full", <<"vpn">>,
                   <<MachineAddress("vpn", <<"host010", 1>>, Some(22),
                                    Some(WireguardPort))>>)

InitRender ==
    /\ TxnIdle
    /\ IncIdle
    /\ AllocIdle
    /\ SortIdle
    /\ resolve_pc = "idle"
    /\ source_networks = <<>> /\ addresses = <<>> /\ network_to_network = <<>>
    /\ command \in Commands
    /\ \/ /\ machines_map \in RenderCatalogs
          /\ network_links_priority_map \in RenderLinkMaps
          /\ keepalives_map \in RenderKeepaliveMaps
          /\ for_machine = IF command = "write-wireguard-peers" THEN "" ELSE "host2"
       \/ /\ machines_map = CatalogWithEqualHostnames
          /\ network_links_priority_map =
                 (<<"public", "public">> :> 1) @@ (<<"public", "vpn">> :> 2)
          /\ keepalives_map = (<<"host2", "host10">> :> 25)
          /\ for_machine = IF command = "write-wireguard-peers" THEN "" ELSE "host2"
       \/ /\ command # "write-wireguard-peers"
          /\ machines_map = ("host10" :> MachineWith("host10", "full", <<>>, <<>>))
          /\ network_links_priority_map = <<>>
          /\ keepalives_map = <<>>
          /\ for_machine = "host2"
    /\ render_pc = IF command = "get_wireguard_peers" THEN "idle" ELSE "call"
    /\ peers_pc = IF command = "get_wireguard_peers" THEN "call" ELSE "idle"
    /\ machines = <<>>
    /\ next_machine = 0
    /\ stdout = <<>>
    /\ files = <<>>
    /\ render_error = "none"
    /\ visited = {}
    /\ paths = <<>>
    /\ peers = <<>>
    /\ peers_error = "none"

\* the orders in which a HashMap may yield its entries
IterationOrders(map) ==
    {order \in [1..Cardinality(DOMAIN map) -> DOMAIN map] :
        \A i, j \in DOMAIN order : order[i] = order[j] => i = j}

\* what the commands emit
HeaderLine(hostname) == [kind |-> "header", hostname |-> hostname, body |-> <<>>]
HostBlock(hostname, address, port) ==
    [kind |-> "Host", hostname |-> hostname, body |-> <<address, port>>]
InterfaceBlock(machine) ==
    [kind |-> "Interface", hostname |-> machine.hostname,
     body |-> <<Unwrap(machine.wireguard_ipv4_address),
                Unwrap(machine.wireguard_ipv6_address),
                Unwrap(machine.wireguard_privkey),
                Unwrap(machine.wireguard_port)>>]
PeerBlock(peer) == [kind |-> "Peer", hostname |-> peer.hostname, body |-> peer]
PeerBlocks(v) == [i \in DOMAIN v |-> PeerBlock(v[i])]
OpenBracket == [kind |-> "[", hostname |-> "", body |-> <<>>]
CloseBracket == [kind |-> "]", hostname |-> "", body |-> <<>>]

\* ---- print_ssh_config ----
\* a mutant of SshTarget: no fallback to the WireGuard address
SshTarget_no_fallback(machine, n2n) ==
    IF n2n = <<>>
    THEN [address |-> None, ssh_port |-> machine.ssh_port]
    ELSE LET desired_address == Unwrap(FindOnNetwork(machine.addresses, n2n[1][2]))
         IN  [address |-> Some(desired_address.address),
              ssh_port |-> desired_address.ssh_port]

\* a mutant of SshTarget: the machine-level SSH port is used with a resolved
\* address too
SshTarget_machine_port(machine, n2n) ==
    IF n2n = <<>>
    THEN [address |-> machine.wireguard_ipv4_address, ssh_port |-> machine.ssh_port]
    ELSE LET desired_address == Unwrap(FindOnNetwork(machine.addresses, n2n[1][2]))
         IN  [address |-> Some(desired_address.address),
              ssh_port |-> machine.ssh_port]

\* the (address, ssh_port) chosen for a machine from its pair list
SshTarget(machine, n2n) ==
    IF n2n = <<>>
    THEN [address |-> machine.wireguard_ipv4_address, ssh_port |-> machine.ssh_port]
    ELSE LET desired_address == Unwrap(FindOnNetwork(machine.addresses, n2n[1][2]))
         IN  [address |-> Some(desired_address.address),
              ssh_port |-> desired_address.ssh_port]

\* a mutant of SshNetworkToNetwork: the resolver is called in the reverse
\* direction, from the candidate's networks to the requester's addresses
SshNetworkToNetwork_reversed(map, source_machine, machine) ==
    UnstableSortByKey(Filtered(map, machine.networks, source_machine.addresses), map)

\* get_network_to_network(&network_links_priority_map,
\*     &source_machine.networks, &machine.addresses)
SshNetworkToNetwork(map, source_machine, machine) ==
    UnstableSortByKey(Filtered(map, source_machine.networks, machine.addresses), map)

\* machines_map.get(for_machine).ok_or_else(...)? fails
SshNoSuchMachine ==
    /\ command = "ssh-config" /\ render_pc = "call"
    /\ LookupMachine(machines_map, for_machine) = None
    /\ render_error' = "NoSuchMachine"
    /\ render_pc' = "failed"
    /\ UNCHANGED <<command, machines, next_machine, stdout, files, peersVars,
                   renderOthers>>

\* get_sorted_machines and the header line
SshPrintHeader ==
    /\ command = "ssh-config" /\ render_pc = "call"
    /\ IsSome(LookupMachine(machines_map, for_machine))
    /\ \E order \in IterationOrders(machines_map) :
           machines' = get_sorted_machines([i \in DOMAIN order |-> machines_map[order[i]]])
    /\ next_machine' = 1
    /\ stdout' = <<HeaderLine(for_machine)>>
    /\ render_pc' = "loop"
    /\ UNCHANGED <<command, files, render_error, peersVars, renderOthers>>

\* one iteration of `for machine in machines.into_iter()`
SshVisit ==
    /\ command = "ssh-config" /\ render_pc = "loop"
    /\ next_machine <= Len(machines)
    /\ LET machine == machines[next_machine]
           source_machine == Unwrap(LookupMachine(machines_map, for_machine))
       IN  \E n2n \in SshNetworkToNetwork(network_links_priority_map,
                                           source_machine, machine) :
               LET target == SshTarget(machine, n2n)
               IN  /\ paths' = (machine.hostname :> n2n) @@ paths
                   /\ stdout' =
                        IF IsSome(target.address) /\ IsSome(target.ssh_port)
                        THEN Append(stdout, HostBlock(machine.hostname,
                                                Unwrap(target.address),
                                                Unwrap(target.ssh_port)))
                        ELSE stdout
    /\ next_machine' = next_machine + 1
    /\ UNCHANGED <<command, machines, files, render_pc, render_error, peers_pc,
                   machines_map, keepalives_map, for_machine, visited, peers,
                   peers_error, renderOthers>>

\* Ok(())
SshDone ==
    /\ command = "ssh-config" /\ render_pc = "loop"
    /\ next_machine > Len(machines)
    /\ render_pc' = "done"
    /\ UNCHANGED <<command, machines, next_machine, stdout, files, render_error,
                   peersVars, renderOthers>>

\* ---- print_wg_quick ----
\* bail!("Could not find machine {:?} in database")
WgQuickNoSuchMachine ==
    /\ command = "wg-quick" /\ render_pc = "call"
    /\ LookupMachine(machines_map, for_machine) = None
    /\ render_error' = "NoSuchMachine"
    /\ render_pc' = "failed"
    /\ UNCHANGED <<command, machines, next_machine, stdout, files, peersVars,
                   renderOthers>>

\* the two ensure!s, the unwrap()s among the arguments of the first println!,
\* the println! itself, and the call of get_wireguard_peers
WgQuickPrintInterface ==
    /\ command = "wg-quick" /\ render_pc = "call"
    /\ IsSome(LookupMachine(machines_map, for_machine))
    /\ LET my_machine == Unwrap(LookupMachine(machines_map, for_machine))
       IN  IF \/ my_machine.wireguard_ipv4_address = None
              \/ my_machine.wireguard_ipv6_address = None
           THEN /\ render_error' = "MachineHasNoWireguard"
                /\ render_pc' = "failed"
                /\ UNCHANGED <<stdout, peers_pc>>
           ELSE IF \/ my_machine.wireguard_privkey = None
                   \/ my_machine.wireguard_port = None
                THEN /\ render_pc' = "panicked"
                     /\ UNCHANGED <<stdout, render_error, peers_pc>>
                ELSE /\ stdout' = <<HeaderLine(for_machine), InterfaceBlock(my_machine)>>
                     /\ render_pc' = "peers"
                     /\ peers_pc' = "call"
                     /\ UNCHANGED render_error
    /\ UNCHANGED <<command, machines, next_machine, files, machines_map,
                   keepalives_map, for_machine, visited, paths, peers, peers_error,
                   renderOthers>>

\* get_wireguard_peers(...)? returns Err
WgQuickPeersFailed ==
    /\ command = "wg-quick" /\ render_pc = "peers"
    /\ peers_pc = "failed"
    /\ render_error' = peers_error
    /\ render_pc' = "failed"
    /\ UNCHANGED <<command, machines, next_machine, stdout, files, peersVars,
                   renderOthers>>

\* sort_wireguard_peers and the [Peer] blocks
WgQuickPrintPeers ==
    /\ command = "wg-quick" /\ render_pc = "peers"
    /\ peers_pc = "returned"
    /\ LET r == sort_wireguard_peers(peers)
       IN  IF r.panicked
           THEN render_pc' = "panicked" /\ UNCHANGED <<stdout, peers>>
           ELSE /\ peers' = r.v
                /\ stdout' = stdout \o PeerBlocks(r.v)
                /\ render_pc' = "done"
    /\ UNCHANGED <<command, machines, next_machine, files, render_error, peers_pc,
                   machines_map, keepalives_map, for_machine, visited, paths,
                   peers_error, renderOthers>>

\* ---- write_wireguard_peers ----
\* get_sorted_machines
WritePeersBegin ==
    /\ command = "write-wireguard-peers" /\ render_pc = "call"
    /\ \E order \in IterationOrders(machines_map) :
           machines' = get_sorted_machines([i \in DOMAIN order |-> machines_map[order[i]]])
    /\ next_machine' = 1
    /\ render_pc' = "loop"
    /\ UNCHANGED <<command, stdout, files, render_error, peersVars, renderOthers>>

\* File::create(path), file.write_all(b"[\n") and the call of
\* get_wireguard_peers for the machine
WritePeersOpenFile ==
    /\ command = "write-wireguard-peers" /\ render_pc = "loop"
    /\ next_machine <= Len(machines)
    /\ files' = (machines[next_machine].hostname :> <<OpenBracket>>) @@ files
    /\ for_machine' = machines[next_machine].hostname
    /\ visited' = {}
    /\ paths' = <<>>
    /\ peers' = <<>>
    /\ peers_error' = "none"
    /\ peers_pc' = "call"
    /\ render_pc' = "peers"
    /\ UNCHANGED <<command, machines, next_machine, stdout, render_error,
                   machines_map, keepalives_map, renderOthers>>

\* get_wireguard_peers(...)? returns Err
WritePeersFailed ==
    /\ command = "write-wireguard-peers" /\ render_pc = "peers"
    /\ peers_pc = "failed"
    /\ render_error' = peers_error
    /\ render_pc' = "failed"
    /\ UNCHANGED <<command, machines, next_machine, stdout, files, peersVars,
                   renderOthers>>

\* sort_wireguard_peers, one line per peer, and file.write_all(b"]\n")
WritePeersWriteFile ==
    /\ command = "write-wireguard-peers" /\ render_pc = "peers"
    /\ peers_pc = "returned"
    /\ LET r == sort_wireguard_peers(peers)
       IN  IF r.panicked
           THEN render_pc' = "panicked" /\ UNCHANGED <<files, peers, next_machine>>
           ELSE /\ peers' = r.v
                /\ files' = [files EXCEPT ![for_machine] =
                                 @ \o PeerBlocks(r.v) \o <<CloseBracket>>]
                /\ next_machine' = next_machine + 1
                /\ render_pc' = "loop"
    /\ UNCHANGED <<command, machines, stdout, render_error, peers_pc,
                   machines_map, keepalives_map, for_machine, visited, paths,
                   peers_error, renderOthers>>

\* Ok(())
WritePeersDone ==
    /\ command = "write-wireguard-peers" /\ render_pc = "loop"
    /\ next_machine > Len(machines)
    /\ render_pc' = "done"
    /\ UNCHANGED <<command, machines, next_machine, stdout, files, render_error,
                   peersVars, renderOthers>>

NextRender ==
    \/ SshNoSuchMachine
    \/ SshPrintHeader
    \/ SshVisit
    \/ SshDone
    \/ WgQuickNoSuchMachine
    \/ WgQuickPrintInterface
    \/ WgQuickPeersFailed
    \/ WgQuickPrintPeers
    \/ WritePeersBegin
    \/ WritePeersOpenFile
    \/ WritePeersFailed
    \/ WritePeersWriteFile
    \/ WritePeersDone
    \/ PeersNoSuchMachine
    \/ PeersBegin
    \/ \E h \in DOMAIN machines_map : PeersVisit(h)
    \/ PeersReturn

SpecRender == InitRender /\ [][NextRender]_vars

\* the hostnames that have a Host block on stdout
SshHosts == {stdout[i].hostname : i \in {k \in DOMAIN stdout : stdout[k].kind = "Host"}}

\* C12: the SSH configuration generated for for_machine holds no Host block
\* for for_machine itself.
C12_NoSshTargetForRequester ==
    command = "ssh-config" => for_machine \notin SshHosts

\* the requester "host2" reaches its own address over the link (public,
\* public) and is given a Host block
SshListsRequesterExample ==
    /\ command = "ssh-config"
    /\ render_pc = "done"
    /\ "host2" \in SshHosts

\* C17: when the requested hostname is not in the catalog, the SSH-config
\* render, the wg-quick render and get_wireguard_peers each end with
\* NoSuchMachine as their first step, and nothing is ever emitted: no
\* header, no Host block, no [Interface] or [Peer] section, no peer list.
C17_NoSuchMachineBeforeOutput ==
    (command # "write-wireguard-peers" /\ for_machine \notin DOMAIN machines_map) =>
        /\ stdout = <<>>
        /\ files = <<>>
        /\ peers = <<>>
        /\ command \in {"ssh-config", "wg-quick"} =>
               \/ render_pc = "call"
               \/ render_pc = "failed" /\ render_error = "NoSuchMachine"
        /\ command = "get_wireguard_peers" =>
               \/ peers_pc = "call"
               \/ peers_pc = "failed" /\ peers_error = "NoSuchMachine"

\* wg-quick asked for "host2", which the catalog does not hold, has ended
\* with NoSuchMachine
C17_Witness ==
    /\ command = "wg-quick"
    /\ for_machine \notin DOMAIN machines_map
    /\ render_pc = "failed"
    /\ render_error = "NoSuchMachine"
    /\ stdout = <<>>

\* the same for the SSH-config render and for get_wireguard_peers
SshNoSuchMachineExample ==
    /\ command = "ssh-config"
    /\ for_machine \notin DOMAIN machines_map
    /\ render_pc = "failed"
    /\ render_error = "NoSuchMachine"
PeersNoSuchMachineExample ==
    /\ command = "get_wireguard_peers"
    /\ for_machine \notin DOMAIN machines_map
    /\ peers_pc = "failed"
    /\ peers_error = "NoSuchMachine"

\* a machine lacks a WireGuard address or a WireGuard port
LacksWireguard(machine) ==
    \/ machine.wireguard_ipv4_address = None
    \/ machine.wireguard_ipv6_address = None
    \/ machine.wireguard_port = None

\* C18: a WireGuard render for an existing machine that lacks a WireGuard
\* address or a WireGuard port ends with MachineHasNoWireguard and renders
\* nothing for that machine: wg-quick prints nothing, and the batch writer
\* writes no peers file for it.
C18_MissingWireguardIsFatal ==
    /\ (/\ command = "wg-quick"
        /\ for_machine \in DOMAIN machines_map
        /\ LacksWireguard(machines_map[for_machine])) =>
           /\ stdout = <<>>
           /\ \/ render_pc = "call"
              \/ render_pc = "failed" /\ render_error = "MachineHasNoWireguard"
    /\ command = "write-wireguard-peers" =>
           \A h \in DOMAIN files : ~LacksWireguard(machines_map[h])

\* wg-quick for a machine with WireGuard addresses and no port panics
WgQuickPanicsWithoutPortExample ==
    /\ command = "wg-quick"
    /\ for_machine \in DOMAIN machines_map
    /\ machines_map[for_machine].wireguard_port = None
    /\ IsSome(machines_map[for_machine].wireguard_ipv4_address)
    /\ render_pc = "panicked"

\* the batch writer has written a complete peers file for a machine that has
\* no WireGuard interface
PeersFileWithoutWireguardExample ==
    /\ command = "write-wireguard-peers"
    /\ render_pc = "done"
    /\ "web1" \in DOMAIN machines_map
    /\ machines_map["web1"].wireguard_ipv4_address = None
    /\ "web1" \in DOMAIN files
    /\ files["web1"][Len(files["web1"])] = CloseBracket

\* wg-quick for a machine without WireGuard addresses ends with
\* MachineHasNoWireguard before anything is printed
WgQuickNoWireguardExample ==
    /\ command = "wg-quick"
    /\ render_pc = "failed"
    /\ render_error = "MachineHasNoWireguard"
    /\ stdout = <<>>

\* C20: no command produces partial output: a run of the wg-quick render,
\* of the SSH-config render or of the batch peers-file writer that ends in
\* an error (NoSuchMachine, MachineHasNoWireguard, PortOutOfRange) has
\* emitted no line and no file byte.
C20_NoPartialOutput ==
    render_pc = "failed" => (stdout = <<>> /\ files = <<>>)

\* wg-quick has printed the header and the [Interface] section and then
\* ended with PortOutOfRange
WgQuickPartialOutputExample ==
    /\ command = "wg-quick"
    /\ render_pc = "failed"
    /\ render_error = "PortOutOfRange"
    /\ Len(stdout) = 2
    /\ stdout[2].kind = "Interface"

\* the batch writer has written a complete file for "host2" and the opening
\* bracket of the next file and then ended with PortOutOfRange
WritePeersPartialOutputExample ==
    /\ command = "write-wireguard-peers"
    /\ render_pc = "failed"
    /\ render_error = "PortOutOfRange"
    /\ \E h \in DOMAIN files : files[h] = <<OpenBracket>>

\* the Host blocks printed for hostname h
HostBlocksOf(h) ==
    {stdout[i] : i \in {k \in DOMAIN stdout :
                            stdout[k].kind = "Host" /\ stdout[k].hostname = h}}

\* no network of the requester has a link entry to a network of an address
\* of machine h
NoLinkTo(h) ==
    \A k \in DOMAIN machines_map[for_machine].networks :
        \A j \in DOMAIN machines_map[h].addresses :
            <<machines_map[for_machine].networks[k],
              machines_map[h].addresses[j].network>>
                \notin DOMAIN network_links_priority_map

\* C21: in the SSH config for A, when no link entry exists between any
\* network of A and any network of an address of B, and B has a WireGuard
\* address, the SSH target of B is B's WireGuard address with B's
\* machine-level SSH port.
C21_SshFallsBackToWireguard ==
    (command = "ssh-config" /\ render_pc = "done") =>
        \A h \in DOMAIN machines_map :
            (/\ NoLinkTo(h)
             /\ IsSome(machines_map[h].wireguard_ipv4_address)
             /\ IsSome(machines_map[h].ssh_port)) =>
                HostBlocksOf(h) =
                    {HostBlock(h, Unwrap(machines_map[h].wireguard_ipv4_address),
                               Unwrap(machines_map[h].ssh_port))}

\* host2 is on "public", host10 has one address on "vpn" with SSH port
\* 2222, the only link is (public, public): host10 is given its WireGuard
\* address and the machine-level port 22
C21_Witness ==
    /\ command = "ssh-config"
    /\ render_pc = "done"
    /\ network_links_priority_map = (<<"public", "public">> :> 1)
    /\ "host10" \in DOMAIN machines_map
    /\ Len(machines_map["host10"].addresses) = 1
    /\ machines_map["host10"].addresses[1].network = "vpn"
    /\ machines_map["host10"].addresses[1].ssh_port = Some(2222)
    /\ HostBlocksOf("host10") = {HostBlock("host10", <<"wg4", "host10">>, 22)}

\* the pairs (s, d) that lead from the requester to machine h: s a network
\* of the requester, d the network of an address of h, (s, d) a link
PairsFromRequesterTo(h) ==
    {p \in DOMAIN network_links_priority_map :
        /\ \E k \in DOMAIN machines_map[for_machine].networks :
               machines_map[for_machine].networks[k] = p[1]
        /\ \E j \in DOMAIN machines_map[h].addresses :
               machines_map[h].addresses[j].network = p[2]}

\* C22: the SSH-config renderer and the WireGuard peer builder resolve
\* paths in the same direction: in either command the pair list of a
\* candidate holds exactly the links from a network of the requester to the
\* network of an address of the candidate, and its top pair is one of least
\* priority among them, so that both select the same top pair (the one of
\* least priority, when there is one such pair).
C22_SameDirection ==
    for_machine \in DOMAIN machines_map =>
        \A h \in DOMAIN paths :
            /\ {paths[h][i] : i \in DOMAIN paths[h]} = PairsFromRequesterTo(h)
            /\ paths[h] # <<>> =>
                   \A p \in PairsFromRequesterTo(h) :
                       network_links_priority_map[paths[h][1]]
                           <= network_links_priority_map[p]

\* the SSH config for host2 (on "public") resolved host10 (one address on
\* "vpn") over the pair (public, vpn)
C22_Witness ==
    /\ command = "ssh-config"
    /\ render_pc = "done"
    /\ "host10" \in DOMAIN paths
    /\ machines_map["host10"].networks = <<"vpn">>
    /\ paths["host10"] = <<<<"public", "vpn">>>>

\* wg-quick for the same requester and candidate resolved the same pair
WgQuickSamePairExample ==
    /\ command = "wg-quick"
    /\ render_pc = "done"
    /\ "host10" \in DOMAIN paths
    /\ machines_map["host10"].networks = <<"vpn">>
    /\ paths["host10"] = <<<<"public", "vpn">>>>

\* a step of the scan's iterator: it moves to a numerically greater address,
\* or ends after the all-ones address
IteratorAscends ==
    (pc = "scan" /\ IsSome(ip_iter) /\ ip_iter' # ip_iter) =>
        \/ /\ ip_iter' = None
           /\ Unwrap(ip_iter) = TopAddr(family, MaxOf(family))
        \/ /\ IsSome(ip_iter')
           /\ AddrLess(Unwrap(ip_iter), Unwrap(ip_iter'))

\* C23: the unused-address scan terminates for every start, end and
\* existing set: its iterator visits addresses in strictly increasing order
\* (so each at most once, never wrapping around to zero), a scan that
\* reports None has stopped at end or after the all-ones address, a scan
\* with start above end and every address from start to all-ones in use
\* reports None, which becomes NoAddressAvailable, and add_machine always
\* reaches its end.
C23_ScanTerminates ==
    /\ [][IteratorAscends]_vars
    /\ []((ScanReturned /\ unused = None) =>
              (ip_iter = None \/ ip_iter = Some(end_ip)))
    /\ []((/\ pc \in {"scanned", "failed"}
           /\ arg_ip = None
           /\ AddrLess(end_ip, start_ip)
           /\ \A a \in Universe(family) : AddrLE(start_ip, a) => a \in existing) =>
              /\ unused = None
              /\ pc = "failed" => error = "NoAddressAvailable")
    /\ <>(pc \in {"committed", "failed"})

\* start = ffff:...:fffe is above end = 10.0.0.1, both top addresses are in
\* use: the iterator ran past the all-ones address and add_machine failed
\* with NoAddressAvailable
C23_Witness ==
    /\ pc = "failed"
    /\ family = "v4"
    /\ start_ip = TopAddr("v4", Ipv4SegMax - 1)
    /\ end_ip = <<10, 0, 0, 1>>
    /\ existing = {TopAddr("v4", Ipv4SegMax - 1), TopAddr("v4", Ipv4SegMax)}
    /\ ip_iter = None
    /\ unused = None
    /\ error = "NoAddressAvailable"

\* C24: the list returned by get_network_to_network holds every admissible
\* pair exactly once: a destination with several addresses on one network,
\* or a source list naming a network twice, produces no duplicate pair.
C24_EachPairOnce ==
    resolve_pc = "returned" =>
        /\ \A p \in AdmissiblePairs : Count(network_to_network, p) = 1
        /\ \A i \in DOMAIN network_to_network : network_to_network[i] \in AdmissiblePairs

\* a destination with two addresses on "public": the pair (public, public)
\* is returned twice
DuplicatePairExample ==
    /\ resolve_pc = "returned"
    /\ source_networks = <<"public">>
    /\ Len(addresses) = 2
    /\ addresses[1].network = "public" /\ addresses[2].network = "public"
    /\ network_to_network = <<<<"public", "public">>, <<"public", "public">>>>

\* what does hold: the list holds the admissible pairs and nothing else,
\* each as many times as the source list names its source network times the
\* destination has addresses on its destination network
PairsCountedWithMultiplicity ==
    resolve_pc = "returned" =>
        /\ {network_to_network[i] : i \in DOMAIN network_to_network} = AdmissiblePairs
        /\ \A p \in AdmissiblePairs :
               Count(network_to_network, p) =
                   Cardinality({k \in DOMAIN source_networks : source_networks[k] = p[1]})
                   * Cardinality({j \in DOMAIN addresses : addresses[j].network = p[2]})

\* C25: in the SSH config, when path resolution yields at least one pair
\* for a machine, the target is the machine's first address on the top
\* pair's destination network with that address's own SSH port, never the
\* WireGuard address or the machine-level port; that address exists; and a
\* Host block is printed for a machine if and only if the chosen address
\* and the chosen port are both present.
C25_SshTargetFromTopPair ==
    (command = "ssh-config" /\ render_pc = "done") =>
        \A h \in DOMAIN machines_map :
            /\ h \in DOMAIN paths
            /\ IF paths[h] # <<>>
               THEN LET k == FirstIndexOn(machines_map[h].addresses, paths[h][1][2])
                    IN  /\ k # 0
                        /\ HostBlocksOf(h) =
                             IF IsSome(machines_map[h].addresses[k].ssh_port)
                             THEN {HostBlock(h, machines_map[h].addresses[k].address,
                                       Unwrap(machines_map[h].addresses[k].ssh_port))}
                             ELSE {}
               ELSE HostBlocksOf(h) # {} <=>
                        /\ IsSome(machines_map[h].wireguard_ipv4_address)
                        /\ IsSome(machines_map[h].ssh_port)
            /\ Cardinality({i \in DOMAIN stdout :
                   stdout[i].kind = "Host" /\ stdout[i].hostname = h}) <= 1

\* web1 has two addresses on "vpn" with SSH ports 2201 and 2202 and is
\* reached over (public, vpn): its target is the first address with port
\* 2201; host10, reached over the same pair on an address without SSH port,
\* gets no Host block although it has a WireGuard address and the machine
\* port 22
C25_Witness ==
    /\ command = "ssh-config"
    /\ render_pc = "done"
    /\ "web1" \in DOMAIN paths
    /\ paths["web1"] # <<>>
    /\ paths["web1"][1] = <<"public", "vpn">>
    /\ HostBlocksOf("web1") = {HostBlock("web1", <<"web1", 1>>, 2201)}
    /\ paths["host10"] = <<<<"public", "vpn">>>>
    /\ machines_map["host10"].addresses[1].ssh_port = None
    /\ IsSome(machines_map["host10"].wireguard_ipv4_address)
    /\ HostBlocksOf("host10") = {}

\* -------------------------------------------------------------------
\* Two add_machine invocations running against one database.
\* Each invocation is its own process with its own connection; main opens
\* the transaction with client.transaction(), which issues a plain BEGIN:
\* the transaction runs at the isolation level the server is configured
\* with, which the program never sets.
\* -------------------------------------------------------------------

\* the two invocations, named by the hostname each one adds
Txns == {"new1", "new2"}

\* the machines stored before either invocation begins
StoredHostnames == {"old1", "old2"}

\* the isolation levels a PostgreSQL server can hand to a plain BEGIN
IsolationLevels == {"read committed", "serializable"}

\* the values of the address column of the rows of a table
AddressesOf(rows) == {rows[h] : h \in DOMAIN rows}

\* get_unused_wireguard_ipv4_address / get_unused_wireguard_ipv6_address
\* as a function of the set read, from the address the iterator yields next
RECURSIVE get_unused_wireguard_address(_, _, _, _)
get_unused_wireguard_address(f, read, proposed_ip, end) ==
    IF proposed_ip = None THEN None
    ELSE IF Unwrap(proposed_ip) \notin read THEN proposed_ip
    ELSE IF Unwrap(proposed_ip) = end THEN None
    ELSE get_unused_wireguard_address(f, read,
                                      successor(f, Unwrap(proposed_ip)), end)

InitConcurrent ==
    /\ IncIdle
    /\ AllocIdle
    /\ ResolveIdle
    /\ PeersIdle
    /\ SortIdle
    /\ RenderIdle
    /\ isolation \in IsolationLevels
    /\ range_family \in Families
    /\ range_start \in LowWindow(range_family)
    /\ range_end \in LowWindow(range_family)
    /\ stored \in UNION {[H -> LowWindow(range_family)] : H \in SUBSET StoredHostnames}
    /\ txn_pc = [t \in Txns |-> "begin"]
    /\ txn_existing = [t \in Txns |-> {}]
    /\ txn_chosen = [t \in Txns |-> None]
    /\ txn_rows = [t \in Txns |-> <<>>]
    /\ txn_error = [t \in Txns |-> "none"]

\* the scan of add_machine: one SELECT of the committed addresses, then the
\* search; no address found is the error of the .context(...)? that follows
TxnScan(t) ==
    /\ txn_pc[t] = "begin"
    /\ LET read == AddressesOf(stored)
           found == get_unused_wireguard_address(range_family, read,
                        FirstProposed(range_family, range_start), range_end)
       IN  /\ txn_existing' = [txn_existing EXCEPT ![t] = read]
           /\ txn_chosen' = [txn_chosen EXCEPT ![t] = found]
           /\ IF found = None
              THEN /\ txn_pc' = [txn_pc EXCEPT ![t] = "failed"]
                   /\ txn_error' = [txn_error EXCEPT ![t] = "NoAddressAvailable"]
              ELSE /\ txn_pc' = [txn_pc EXCEPT ![t] = "keypair"]
                   /\ UNCHANGED txn_error
    /\ UNCHANGED <<isolation, range_family, range_start, range_end, stored,
                   txn_rows, txnOthers>>

\* wireguard::generate_keypair()? succeeds
TxnKeypair(t) ==
    /\ txn_pc[t] = "keypair"
    /\ txn_pc' = [txn_pc EXCEPT ![t] = "insert"]
    /\ UNCHANGED <<isolation, range_family, range_start, range_end, stored,
                   txn_existing, txn_chosen, txn_rows, txn_error, txnOthers>>

\* wireguard::generate_keypair()? fails: add_machine returns the error and
\* the transaction is dropped, which rolls it back
TxnKeypairFails(t) ==
    /\ txn_pc[t] = "keypair"
    /\ txn_pc' = [txn_pc EXCEPT ![t] = "failed"]
    /\ txn_error' = [txn_error EXCEPT ![t] = "KeypairFailed"]
    /\ UNCHANGED <<isolation, range_family, range_start, range_end, stored,
                   txn_existing, txn_chosen, txn_rows, txnOthers>>

\* the three INSERTs: the rows are written inside the transaction and are
\* not visible to the other invocation
TxnInsert(t) ==
    /\ txn_pc[t] = "insert"
    /\ txn_rows' = [txn_rows EXCEPT ![t] = (t :> Unwrap(txn_chosen[t]))]
    /\ txn_pc' = [txn_pc EXCEPT ![t] = "commit"]
    /\ UNCHANGED <<isolation, range_family, range_start, range_end, stored,
                   txn_existing, txn_chosen, txn_error, txnOthers>>

\* one of the INSERTs returns an error (transaction.execute(...)?): the
\* transaction is dropped, which rolls it back
TxnInsertFails(t) ==
    /\ txn_pc[t] = "insert"
    /\ txn_pc' = [txn_pc EXCEPT ![t] = "failed"]
    /\ txn_error' = [txn_error EXCEPT ![t] = "InsertFailed"]
    /\ UNCHANGED <<isolation, range_family, range_start, range_end, stored,
                   txn_existing, txn_chosen, txn_rows, txnOthers>>

\* a serializable transaction cannot commit when the table it read has
\* been written by a transaction that committed in the meantime
SerializationFailure(t) ==
    /\ isolation = "serializable"
    /\ AddressesOf(stored) # txn_existing[t]

\* transaction.commit()? succeeds: the rows become visible
TxnCommit(t) ==
    /\ txn_pc[t] = "commit"
    /\ ~SerializationFailure(t)
    /\ stored' = txn_rows[t] @@ stored
    /\ txn_pc' = [txn_pc EXCEPT ![t] = "committed"]
    /\ UNCHANGED <<isolation, range_family, range_start, range_end,
                   txn_existing, txn_chosen, txn_rows, txn_error, txnOthers>>

\* transaction.commit()? returns the server's serialization failure
TxnCommitFails(t) ==
    /\ txn_pc[t] = "commit"
    /\ SerializationFailure(t)
    /\ txn_pc' = [txn_pc EXCEPT ![t] = "failed"]
    /\ txn_rows' = [txn_rows EXCEPT ![t] = <<>>]
    /\ txn_error' = [txn_error EXCEPT ![t] = "CommitFailed"]
    /\ UNCHANGED <<isolation, range_family, range_start, range_end, stored,
                   txn_existing, txn_chosen, txnOthers>>

NextConcurrent ==
    \E t \in Txns :
        \/ TxnScan(t)
        \/ TxnKeypair(t)
        \/ TxnKeypairFails(t)
        \/ TxnInsert(t)
        \/ TxnInsertFails(t)
        \/ TxnCommit(t)
        \/ TxnCommitFails(t)

SpecConcurrent == InitConcurrent /\ [][NextConcurrent]_vars

\* an invocation commits in this step
Commits(t) == txn_pc[t] = "commit" /\ txn_pc'[t] = "committed"

\* an invocation fails in this step
Fails(t) == txn_pc[t] # "failed" /\ txn_pc'[t] = "failed"

\* at its commit, the address an invocation chose is not an address already
\* committed
ChosenUnusedAtCommit ==
    \A t \in Txns :
        Commits(t) => Unwrap(txn_chosen[t]) \notin AddressesOf(stored)

\* no two invocations have committed the same address
NoSharedCommittedAddress ==
    \A t1, t2 \in Txns :
        (t1 # t2 /\ txn_pc[t1] = "committed" /\ txn_pc[t2] = "committed") =>
            stored[t1] # stored[t2]

\* an invocation that fails leaves the committed rows as they were
FailureKeepsStored == \A t \in Txns : Fails(t) => stored' = stored

\* C26: add_machine reads the existing addresses and inserts the new
\* machine inside one transaction that commits after all inserts: for any
\* interleaving of two concurrent add_machine operations that both rely on
\* the allocator, the address chosen by each is still unused at its commit
\* time, so the two never commit the same WireGuard address; and an
\* add_machine that fails before commit leaves the stored machines and
\* addresses unchanged.
C26_ConcurrentAllocationsDistinct ==
    /\ [][ChosenUnusedAtCommit]_vars
    /\ []NoSharedCommittedAddress
    /\ [][FailureKeepsStored]_vars

\* both invocations have committed, with the same address
SameAddressCommittedExample ==
    /\ isolation = "read committed"
    /\ txn_pc = [t \in Txns |-> "committed"]
    /\ stored["new1"] = stored["new2"]

\* what does hold at every isolation level: a failing invocation leaves the
\* committed rows unchanged, and an invocation commits the address its own
\* scan chose, which was unused when the scan read the table
FailedInvocationLeavesStore == [][FailureKeepsStored]_vars
CommitsWhatTheScanChose ==
    \A t \in Txns :
        txn_pc[t] = "committed" =>
            /\ stored[t] = Unwrap(txn_chosen[t])
            /\ stored[t] \notin txn_existing[t]

\* what holds when the server runs the transactions as serializable
SerializableCommitsDistinct ==
    isolation = "serializable" => NoSharedCommittedAddress
SerializableExample ==
    /\ isolation = "serializable"
    /\ \E t1, t2 \in Txns :
          /\ txn_pc[t1] = "committed"
          /\ txn_error[t2] = "CommitFailed"

\* the stepwise scan of add_machine returns what
\* get_unused_wireguard_address computes
ScanAgreesWithFunction ==
    ScanReturned =>
        unused = get_unused_wireguard_address(family, existing,
                     FirstProposed(family, start_ip), end_ip)

\* the peer list get_wireguard_peers builds when machines_map.values()
\* yields the machines in the given order, each candidate resolved to the
\* pair list recorded for it
RECURSIVE PeersInOrder(_, _)
PeersInOrder(order, i) ==
    IF i = 0 THEN <<>>
    ELSE LET machine == machines_map[order[i]]
         IN  PeersInOrder(order, i - 1)
             \o (IF machine.hostname = for_machine \/ order[i] \notin DOMAIN paths
                 THEN <<>>
                 ELSE PeerFor(machine, EndpointFor(machine, paths[order[i]]).endpoint,
                              KeepaliveFor(keepalives_map, for_machine,
                                           machine.hostname)))

\* C27: the rendered peer list is deterministic: for a fixed catalog,
\* priority map, keepalive map and for_machine, get_wireguard_peers followed
\* by sort_wireguard_peers yields the same sequence of peers for every
\* iteration order of the machines map (hostnames being unique): the list
\* wg-quick has rendered is the one every iteration order leads to.
C27_PeerListDeterministic ==
    (command = "wg-quick" /\ render_pc = "done") =>
        \A order \in IterationOrders(machines_map) :
            sort_wireguard_peers(PeersInOrder(order, Len(order))).v = peers

\* two runs of wg-quick for host2 on the same catalog, maps and requester:
\* one lists host10 before host010, the other host010 before host10
PeerOrderExampleA ==
    /\ command = "wg-quick"
    /\ render_pc = "done"
    /\ machines_map = CatalogWithEqualHostnames
    /\ HostnameSeq(peers) = <<"host10", "host010">>
PeerOrderExampleB ==
    /\ command = "wg-quick"
    /\ render_pc = "done"
    /\ machines_map = CatalogWithEqualHostnames
    /\ HostnameSeq(peers) = <<"host010", "host10">>

\* what does hold: with hostnames of which no two are equal in natural
\* order, every iteration order leads to the list rendered
PeerListDeterministicWithoutTies ==
    (/\ command = "wg-quick" /\ render_pc = "done"
     /\ \A h1, h2 \in DOMAIN machines_map :
            h1 # h2 => PeersCompare(h1, h2) # Some("Equal")) =>
        \A order \in IterationOrders(machines_map) :
            sort_wireguard_peers(PeersInOrder(order, Len(order))).v = peers

====
